---- MODULE Spec2Model ----
(***************************************************************************)
(* Model of the least-recently-used object cache of                        *)
(* src/framework/mlt_cache.c.                                              *)
(*                                                                         *)
(* The cache is a record s whose fields are those of struct mlt_cache_s    *)
(* (count, current, A, B, mutex, active, garbage) together with the part   *)
(* of the environment the functions act on: how often the destructor of    *)
(* each data object has run, and whether the mutex was held at that time.  *)
(* Every C function is an operator from such a record to the record after  *)
(* the call, written in the order of the C statements.                     *)
(***************************************************************************)
EXTENDS Integers, Sequences, FiniteSets, TLC

\* ------------------------------------------------------------- constants
CACHE_SIZE == 10

\* the null pointer
NULL == 0

\* ---------------------------------------------------------------- bounds
\* owners that are put repeatedly, looked up and purged
NHot == 2
\* owners that are put once each, in order, to fill the cache
NFill == 9
\* data pointers given to the hot owners
NData == 3
\* handles the callers hold at one time
MaxHandles == 2
\* the count of destructor runs per data pointer saturates here
MaxDestroy == 2
\* operations of the caller on the hot owners
MaxOps == 7
\* operations on the hot owners while the fill owners are put
MaxLruOps == 4
\* operations on the hot owners around one filling of the cache
MaxEvictOps == 6
\* get_image callbacks a collaborator pushes on the frame, and the calls
\* made on the frame
NSteps == 2
MaxFrameOps == 5
MaxPositionOps == 4
\* calls on the audio of one frame
MaxAudioOps == 6
\* frames pushed as sub-frames, services of the service stack, holders of
\* one frame and their calls
NSubFrames == 2
NServices == 3
MaxRefs == 3
MaxCloseOps == 7
\* the positions a run of frames starts at, and the frames of a run
MaxStart == 299
\* calls of mlt_frame_mix_audio on two frames
MaxMixCalls == 2
MaxFramesCounted == 300
\* the widths and heights of the images resized, the bytes that a block of
\* the pool can hold before it is written, and the calls of
\* mlt_frame_resize_yuv422 on one frame
Widths == {4, 7, 8, 12}

Heights == {4, 7, 8}

Junk == {0, 255}

MaxResizeCalls == 2
\* threads of the threaded specification, and the calls they make in all
NThreads == 2
MaxThreadOps == 4

Hot == 1..NHot
Fillers == (NHot + 1)..(NHot + NFill)
Owners == Hot \cup Fillers
HotData == 1..NData
FillData(o) == NData + (o - NHot)
Data == 1..(NData + NFill)
SizeOf(d) == 100 + d
Slots == 0..(CACHE_SIZE - 1)

Min(a, b) == IF a < b THEN a ELSE b

\* ----------------------------------------------------------------- items
\* struct mlt_cache_item_s; valid = FALSE stands for "no such item" (a null
\* item pointer), destructor = TRUE for a non-null destructor.
NoItem ==
  [valid |-> FALSE, object |-> NULL, data |-> NULL, size |-> 0,
   refcount |-> 0, destructor |-> FALSE]

\* calloc( 1, sizeof( mlt_cache_item_s ) )
CallocItem == [NoItem EXCEPT !.valid = TRUE]

\* mlt_cache_init: calloc'ed struct, current = A, two empty property lists.
\* dtor[d] counts the runs of the destructor on data pointer d, dtorLocked
\* and dtorUnlocked record whether the mutex was held during a run.
mlt_cache_init ==
  [count |-> 0, current |-> "A",
   A |-> [i \in Slots |-> NULL], B |-> [i \in Slots |-> NULL],
   mutex |-> 0,
   active |-> [o \in Owners |-> NoItem],
   garbage |-> [d \in Data |-> NoItem],
   dtor |-> [d \in Data |-> 0],
   dtorLocked |-> FALSE, dtorUnlocked |-> FALSE,
   fault |-> FALSE]

\* cache->current == cache->A ? cache->B : cache->A
AltOf(s) == IF s.current = "A" THEN "B" ELSE "A"

ArrayGet(s, arr, i) == IF arr = "A" THEN s.A[i] ELSE s.B[i]

\* a store outside the array bounds is undefined behaviour: fault
ArraySet(s, arr, i, v) ==
  IF i \notin Slots THEN [s EXCEPT !.fault = TRUE]
  ELSE IF arr = "A" THEN [s EXCEPT !.A[i] = v] ELSE [s EXCEPT !.B[i] = v]

\* pthread_mutex_lock / pthread_mutex_unlock by thread t
MutexLock(s, t) == [s EXCEPT !.mutex = t]
MutexUnlock(s) == [s EXCEPT !.mutex = 0]

\* item->destructor( item->data ): the user's destructor runs on d
RunDestructor(s, d) ==
  IF d \in Data
  THEN [s EXCEPT !.dtor[d] = Min(MaxDestroy, @ + 1),
                 !.dtorLocked = @ \/ (s.mutex # 0),
                 !.dtorUnlocked = @ \/ (s.mutex = 0)]
  ELSE [s EXCEPT !.dtorLocked = @ \/ (s.mutex # 0),
                 !.dtorUnlocked = @ \/ (s.mutex = 0)]

\* ------------------------------------------------------- property lists
\* mlt_properties_get_data( list, key, NULL ): the item stored under key, or
\* no item
mlt_properties_get_data(list, key) ==
  IF key \in DOMAIN list THEN list[key] ELSE NoItem

\* mlt_properties_set_data( list, key, item, 0, free, NULL ); storing NULL
\* releases the record that was stored and leaves no record under key
mlt_properties_set_data(list, key, item) ==
  IF key \in DOMAIN list THEN [list EXCEPT ![key] = item] ELSE list

\* ---------------------------------------------------- cache_object_close
\* lines 120-137 with the test of the refcount left out: the data is
\* destroyed whatever the count
CloseActive_always(s, object) ==
  LET item == mlt_properties_get_data(s.active, object) IN
  IF item.valid /\ item.destructor
  THEN LET s1 == RunDestructor(s, item.data) IN
       [s1 EXCEPT !.active[object] =
          [item EXCEPT !.refcount = item.refcount - 1,
                       !.data = NULL, !.destructor = FALSE]]
  ELSE s

\* lines 120-137: the item of the active list found by its owner's address
CloseActive(s, object) ==
  LET item == mlt_properties_get_data(s.active, object) IN
  IF item.valid /\ item.destructor
  THEN IF item.refcount - 1 <= 0
       THEN LET s1 == RunDestructor(s, item.data) IN
            [s1 EXCEPT !.active[object] =
               [item EXCEPT !.refcount = item.refcount - 1,
                            !.data = NULL, !.destructor = FALSE]]
       ELSE [s EXCEPT !.active[object].refcount = item.refcount - 1]
  ELSE s

\* lines 139-157 with line 154 left out: the item whose refcount has
\* reached 0 is destroyed and stays in the garbage collection
CloseGarbage_kept(s, data) ==
  LET item == IF data # NULL THEN mlt_properties_get_data(s.garbage, data)
              ELSE NoItem IN
  IF item.valid /\ item.destructor
  THEN IF item.refcount - 1 <= 0
       THEN LET s1 == RunDestructor(s, item.data) IN
            [s1 EXCEPT !.garbage[data] =
               [item EXCEPT !.refcount = item.refcount - 1,
                            !.data = NULL, !.destructor = FALSE]]
       ELSE [s EXCEPT !.garbage[data].refcount = item.refcount - 1]
  ELSE s

\* lines 139-157: the item of the garbage collection found by its data address
CloseGarbage(s, data) ==
  LET item == IF data # NULL THEN mlt_properties_get_data(s.garbage, data)
              ELSE NoItem IN
  IF item.valid /\ item.destructor
  THEN IF item.refcount - 1 <= 0
       THEN LET s1 == RunDestructor(s, item.data) IN
            [s1 EXCEPT !.garbage = mlt_properties_set_data(@, data, NoItem)]
       ELSE [s EXCEPT !.garbage[data].refcount = item.refcount - 1]
  ELSE s

\* cache_object_close with the mutex released before the items are closed
cache_object_close_unlocked(s, t, object, data) ==
  CloseGarbage(CloseActive(MutexUnlock(MutexLock(s, t)), object), data)

\* cache_object_close( cache, object, data ) called by thread t
cache_object_close(s, t, object, data) ==
  MutexUnlock(CloseGarbage(CloseActive(MutexLock(s, t), object), data))

\* ------------------------------------------------------- shuffle_get_hit
\* lines 299-304: while ( i-- && !hit ); the index of the hit or -1
RECURSIVE FindHit(_, _, _)
FindHit(s, object, i) ==
  IF i = 0 THEN -1
  ELSE IF ArrayGet(s, s.current, i - 1) = object THEN i - 1
  ELSE FindHit(s, object, i - 1)

\* lines 315-328 without the test of line 319: the entry that equals object
\* is recorded as the hit and copied like the others
RECURSIVE ShuffleLoop_no_skip(_, _, _, _, _, _)
ShuffleLoop_no_skip(s, object, alt, i, j, hit) ==
  IF i = 0 THEN [st |-> s, hit |-> hit]
  ELSE LET o  == ArrayGet(s, s.current, i - 1)
           h1 == IF hit = -1 /\ o = object THEN i - 1 ELSE hit
       IN IF j > 0
          THEN ShuffleLoop_no_skip(ArraySet(s, alt, j - 1, o), object, alt,
                                   i - 1, j - 1, h1)
          ELSE ShuffleLoop_no_skip(s, object, alt, i - 1, j, h1)

\* lines 315-328: while ( i-- ), shuffling into the alternate array
RECURSIVE ShuffleLoop(_, _, _, _, _, _)
ShuffleLoop(s, object, alt, i, j, hit) ==
  IF i = 0 THEN [st |-> s, hit |-> hit]
  ELSE LET o == ArrayGet(s, s.current, i - 1) IN
       IF hit = -1 /\ o = object
       THEN ShuffleLoop(s, object, alt, i - 1, j, i - 1)
       ELSE IF j > 0
       THEN ShuffleLoop(ArraySet(s, alt, j - 1, o), object, alt, i - 1, j - 1, hit)
       ELSE ShuffleLoop(s, object, alt, i - 1, j, hit)

\* shuffle_get_hit without lines 307-308: j stays count - 1 on a miss
shuffle_get_hit_no_grow(s, object) ==
  ShuffleLoop(s, object, AltOf(s), s.count, s.count - 1, -1)

\* shuffle_get_hit( cache, object ): the cache after the shuffle and the
\* index in the current array of the hit, -1 for a miss
shuffle_get_hit(s, object) ==
  LET j0 == s.count - 1
      j  == IF s.count > 0 /\ s.count < CACHE_SIZE
                 /\ FindHit(s, object, s.count) = -1
            THEN j0 + 1 ELSE j0
  IN ShuffleLoop(s, object, AltOf(s), s.count, j, -1)

\* ---------------------------------------------------------- mlt_cache_put
\* lines 344-372 up to the first unlock: the shuffle and the choice of the
\* branch. where: "hit" and "evict" leave the mutex released before
\* cache_object_close, "room" goes on holding it.
put_begin(s, t, object) ==
  LET r   == shuffle_get_hit(MutexLock(s, t), object)
      alt == AltOf(s)
  IN IF r.hit # -1
     THEN [st |-> MutexUnlock(r.st), where |-> "hit", alt |-> alt,
           hitArr |-> s.current, hitIdx |-> r.hit]
     ELSE IF s.count < CACHE_SIZE
     THEN [st |-> [r.st EXCEPT !.count = @ + 1], where |-> "room", alt |-> alt,
           hitArr |-> alt, hitIdx |-> s.count]
     ELSE [st |-> MutexUnlock(r.st), where |-> "evict", alt |-> alt,
           hitArr |-> s.current, hitIdx |-> 0]

\* lines 376-410: fetch or create the cache item, orphan the old data if it
\* is still referenced, install the new data
put_item(s, object, data, size, destructor) ==
  LET found == mlt_properties_get_data(s.active, object)
      item  == IF found.valid THEN found ELSE CallocItem
      s1    == IF item.refcount > 0 /\ item.data # NULL
               THEN [s EXCEPT !.garbage =
                       mlt_properties_set_data(@, item.data, item)]
               ELSE s
  IN [s1 EXCEPT !.active = mlt_properties_set_data(@, object,
        [valid |-> TRUE, object |-> object, data |-> data, size |-> size,
         refcount |-> 1, destructor |-> destructor])]

\* lines 373-414: store the owner at *hit, update its item, swap the arrays
\* and unlock. idx is the slot hit points at in the array alt.
put_end(s, alt, idx, object, data, size, destructor) ==
  LET s1 == ArraySet(s, alt, idx, object)
      s2 == put_item(s1, object, data, size, destructor)
  IN MutexUnlock([s2 EXCEPT !.current = alt])

\* lines 354-356 and 368-371: lock again, hit = &alt[ cache->count - 1 ]
put_relock(s, t, alt, object, data, size, destructor) ==
  LET s1 == MutexLock(s, t)
  IN put_end(s1, alt, s1.count - 1, object, data, size, destructor)

\* mlt_cache_put run by one thread with no other thread in between
mlt_cache_put(s, t, object, data, size, destructor) ==
  LET b == put_begin(s, t, object) IN
  IF b.where = "room"
  THEN put_end(b.st, b.alt, b.hitIdx, object, data, size, destructor)
  ELSE put_relock(
         cache_object_close(b.st, t, ArrayGet(b.st, b.hitArr, b.hitIdx), NULL),
         t, b.alt, object, data, size, destructor)

\* ---------------------------------------------------------- mlt_cache_get
\* mlt_cache_get with the swap of the arrays (line 446) moved after the if:
\* the arrays are swapped on a miss as well
mlt_cache_get_swap_on_miss(s, t, object) ==
  LET r   == shuffle_get_hit(MutexLock(s, t), object)
      alt == AltOf(s)
  IN IF r.hit # -1
     THEN LET s1   == ArraySet(r.st, alt, s.count - 1,
                               ArrayGet(r.st, s.current, r.hit))
              key  == ArrayGet(s1, alt, s.count - 1)
              item == mlt_properties_get_data(s1.active, key)
              s2   == IF item.valid /\ item.data # NULL
                      THEN [s1 EXCEPT !.active[key].refcount = @ + 1]
                      ELSE s1
              s3   == IF item.valid THEN s2 ELSE [s2 EXCEPT !.fault = TRUE]
          IN [st |-> MutexUnlock([s3 EXCEPT !.current = alt]),
              hit |-> TRUE, result |-> IF item.valid THEN key ELSE NULL]
     ELSE [st |-> MutexUnlock([r.st EXCEPT !.current = alt]),
           hit |-> FALSE, result |-> NULL]

\* mlt_cache_get( cache, object ): the cache after the call and whether an
\* item is returned (result) for a hit in the ordering (hit)
mlt_cache_get(s, t, object) ==
  LET r   == shuffle_get_hit(MutexLock(s, t), object)
      alt == AltOf(s)
  IN IF r.hit # -1
     THEN LET s1   == ArraySet(r.st, alt, s.count - 1,
                               ArrayGet(r.st, s.current, r.hit))
              key  == ArrayGet(s1, alt, s.count - 1)
              item == mlt_properties_get_data(s1.active, key)
              s2   == IF item.valid /\ item.data # NULL
                      THEN [s1 EXCEPT !.active[key].refcount = @ + 1]
                      ELSE s1
              \* line 443 reads result->data for the log: a null result faults
              s3   == IF item.valid THEN s2 ELSE [s2 EXCEPT !.fault = TRUE]
          IN [st |-> MutexUnlock([s3 EXCEPT !.current = alt]),
              hit |-> TRUE, result |-> IF item.valid THEN key ELSE NULL]
     ELSE [st |-> MutexUnlock(r.st), hit |-> FALSE, result |-> NULL]

\* mlt_cache_item_data( item, &size ) for the item of owner key
mlt_cache_item_data(s, key) ==
  LET item == mlt_properties_get_data(s.active, key) IN
  IF item.valid THEN [data |-> item.data, size |-> item.size]
  ELSE [data |-> NULL, size |-> 0]

\* mlt_cache_item_close( item ) for the item of owner key: the arguments
\* are read from the item as it is now
mlt_cache_item_close(s, t, key) ==
  LET item == mlt_properties_get_data(s.active, key) IN
  IF item.valid THEN cache_object_close(s, t, item.object, item.data) ELSE s

\* -------------------------------------------------------- mlt_cache_purge
\* lines 233-247: the loop from index i on, holding the mutex, up to the
\* next entry that equals object (where = "close": the mutex is released
\* for cache_object_close) or to the end of the loop (where = "tail")
RECURSIVE purge_scan(_, _, _, _, _)
purge_scan(s, object, alt, i, j) ==
  IF i >= s.count THEN [st |-> s, where |-> "tail", i |-> i, j |-> j]
  ELSE LET o == ArrayGet(s, s.current, i) IN
       IF o = object
       THEN [st |-> MutexUnlock(s), where |-> "close", i |-> i, j |-> j]
       ELSE purge_scan(ArraySet(s, alt, j, o), object, alt, i + 1, j + 1)

\* lines 263-276 left out: the garbage collection is not purged
PurgeGarbage_none(s, object, i) == s

\* lines 263-276: every item of the garbage collection that belongs to
\* object is destroyed and removed, whatever its refcount
RECURSIVE PurgeGarbage(_, _, _)
PurgeGarbage(s, object, i) ==
  IF i = 0 THEN s
  ELSE LET item == mlt_properties_get_data(s.garbage, i) IN
       IF item.valid /\ object = item.object /\ item.destructor
       THEN PurgeGarbage(
              [RunDestructor(s, item.data) EXCEPT
                 !.garbage = mlt_properties_set_data(@, item.data, NoItem)],
              object, i - 1)
       ELSE PurgeGarbage(s, object, i - 1)

\* lines 248-278: count and current are set, the active item of object is
\* destroyed and released whatever its refcount, then its garbage
purge_tail(s, object, alt, j) ==
  LET s1   == [s EXCEPT !.count = j, !.current = alt]
      item == mlt_properties_get_data(s1.active, object)
      s2   == IF item.valid /\ item.destructor
              THEN [RunDestructor(s1, item.data) EXCEPT
                      !.active = mlt_properties_set_data(@, object, NoItem)]
              ELSE s1
  IN MutexUnlock(PurgeGarbage(s2, object, NData + NFill))

\* the loop of mlt_cache_purge run by one thread with no other in between
RECURSIVE PurgeFrom(_, _, _, _, _, _)
PurgeFrom(s, t, object, alt, i, j) ==
  LET r == purge_scan(s, object, alt, i, j) IN
  IF r.where = "tail" THEN purge_tail(r.st, object, alt, r.j)
  ELSE PurgeFrom(MutexLock(cache_object_close(r.st, t, object, NULL), t),
                 t, object, alt, r.i + 1, r.j)

\* mlt_cache_purge( cache, object )
mlt_cache_purge(s, t, object) ==
  IF object = NULL THEN s
  ELSE PurgeFrom(MutexLock(s, t), t, object, AltOf(s), 0, 0)

\* -------------------------------------------------------- mlt_cache_close
\* lines 205-210: while ( cache->count-- ) cache_object_close( ... )
RECURSIVE mlt_cache_close(_, _)
mlt_cache_close(s, t) ==
  IF s.count = 0 THEN [s EXCEPT !.count = -1]
  ELSE LET s1 == [s EXCEPT !.count = @ - 1] IN
       mlt_cache_close(
         cache_object_close(s1, t, ArrayGet(s1, s1.current, s1.count), NULL), t)

\* =================================================================== frame
\* Model of the frame of src/framework/mlt_frame.c (the image and audio
\* stacks, the properties the functions read and write) and of the resize
\* filter's use of it (filter_resize.c). A frame is a record f; every C
\* function is an operator from such a record to the record after the
\* call. f.log records the calls of the get_image and get_audio callbacks
\* and their returns, f.fault that a call went through an entry that is no
\* function.

\* ------------------------------------------------------------- mlt_deque
\* An entry of a deque holds an address, an int or a double in the same
\* storage. kind tells what was pushed; for a get_image or get_audio
\* callback type and id tell what the callback does and which buffer it
\* produces; v is the value of an int or double entry.
Entry(kind, type, id, v) == [kind |-> kind, type |-> type, id |-> id, v |-> v]

NoEntry == Entry("none", "", NULL, 0)

\* the entry read as an address is a null pointer: an int 0 or a double 0.0
IsNullAddress(e) == e.kind = "none" \/ (e.kind \in {"int", "double"} /\ e.v = 0)

mlt_deque_init == <<>>

mlt_deque_count(dq) == Len(dq)

\* mlt_deque_push_back, mlt_deque_push_back_int, mlt_deque_push_back_double
mlt_deque_push_back(dq, e) == Append(dq, e)

\* mlt_deque_pop_back: the last entry is removed and returned; an empty
\* deque returns a null pointer
mlt_deque_pop_back(dq) ==
  IF dq = <<>> THEN [dq |-> dq, e |-> NoEntry, null |-> TRUE]
  ELSE [dq |-> SubSeq(dq, 1, Len(dq) - 1), e |-> dq[Len(dq)],
        null |-> IsNullAddress(dq[Len(dq)])]

\* -------------------------------------------------------- mlt_frame_init
\* the buffers: the callbacks with id 1..NSteps produce the buffer of their
\* id, the callback that the callback id pushes the buffer PushedStep(id),
\* then the image of the test card producer, the placeholder from the
\* pool, the buffer passed to mlt_frame_replace_image, and the audio
\* buffers
PushedStep(id) == NSteps + id
StepIds == 1..(2 * NSteps)
TestCardImage == 2 * NSteps + 1
PlaceholderImage == 2 * NSteps + 2
ReplacedImage == 2 * NSteps + 3
AudioBuffer == 2 * NSteps + 4
SilenceBuffer == 2 * NSteps + 5
PlainAudioBuffer == 2 * NSteps + 6
WideAudioBuffer == 2 * NSteps + 7
LongAudioBuffer == 2 * NSteps + 8
AudioBuffers == {AudioBuffer, SilenceBuffer, PlainAudioBuffer,
                 WideAudioBuffer, LongAudioBuffer}

\* the 16 bit samples of a buffer: the samples s and z samples of value 0
\* after them
Pcm(s, z) == [s |-> s, z |-> z]

\* mlt_frame_init with no profile: the default properties and empty stacks
mlt_frame_init ==
  [stack_image |-> mlt_deque_init, stack_audio |-> mlt_deque_init,
   stack_service |-> mlt_deque_init, ref_count |-> 1, closes |-> <<>>,
   freed |-> FALSE,
   image |-> NULL, image_size |-> 0,
   width |-> 720, height |-> 576, format |-> "none",
   normalised_width |-> 720, normalised_height |-> 576,
   aspect_ratio |-> 1, consumer_aspect_ratio |-> 0, position |-> 0,
   test_image |-> 0, image_count |-> 0,
   test_card_producer |-> NULL, test_card_frame |-> NULL,
   scaled_width |-> 0, scaled_height |-> 0,
   get_alpha_mask |-> NULL,
   audio |-> NULL, test_audio |-> 0,
   audio_frequency |-> 0, audio_channels |-> 0, audio_samples |-> 0,
   meta_volume |-> "", silent_audio |-> 0, pcm |-> [b \in AudioBuffers |-> Pcm(<<>>, 0)],
   log |-> <<>>, fault |-> FALSE]

\* mlt_frame_is_test_card without the count of the stack
mlt_frame_is_test_card_flag_only(f) == f.test_image # 0

\* mlt_frame_is_test_card
mlt_frame_is_test_card(f) ==
  mlt_deque_count(f.stack_image) = 0 \/ f.test_image # 0

\* mlt_frame_is_test_audio
mlt_frame_is_test_audio(f) ==
  mlt_deque_count(f.stack_audio) = 0 \/ f.test_audio # 0

\* mlt_frame_get_position: the property _position, 0 if it is negative
mlt_frame_get_position(f) == IF f.position < 0 THEN 0 ELSE f.position

\* mlt_frame_set_position that leaves the property as it is
mlt_frame_set_position_none(f, value) == f

\* mlt_frame_set_position
mlt_frame_set_position(f, value) == [f EXCEPT !.position = value]

\* mlt_frame_set_aspect_ratio
mlt_frame_set_aspect_ratio(f, value) == [f EXCEPT !.aspect_ratio = value]

\* mlt_frame_push_get_image
mlt_frame_push_get_image(f, get_image) ==
  [f EXCEPT !.stack_image = mlt_deque_push_back(@, get_image)]

\* mlt_frame_pop_get_image that returns the last entry and leaves it on the
\* stack
mlt_frame_pop_get_image_peek(f) ==
  LET p == mlt_deque_pop_back(f.stack_image)
  IN [f |-> f, e |-> p.e, null |-> p.null]

\* mlt_frame_pop_get_image that takes the entry pushed first
mlt_frame_pop_get_image_front(f) ==
  IF f.stack_image = <<>> THEN [f |-> f, e |-> NoEntry, null |-> TRUE]
  ELSE [f |-> [f EXCEPT !.stack_image = Tail(@)], e |-> Head(f.stack_image),
        null |-> IsNullAddress(Head(f.stack_image))]

\* mlt_frame_pop_get_image: the frame after the pop and what was popped
mlt_frame_pop_get_image(f) ==
  LET p == mlt_deque_pop_back(f.stack_image)
  IN [f |-> [f EXCEPT !.stack_image = p.dq], e |-> p.e, null |-> p.null]

\* mlt_frame_push_service
mlt_frame_push_service(f, that) ==
  [f EXCEPT !.stack_image = mlt_deque_push_back(@, that)]

\* mlt_frame_pop_service
mlt_frame_pop_service(f) ==
  LET p == mlt_deque_pop_back(f.stack_image)
  IN [f |-> [f EXCEPT !.stack_image = p.dq], e |-> p.e, null |-> p.null]

\* mlt_frame_push_service_int
mlt_frame_push_service_int(f, that) ==
  [f EXCEPT !.stack_image = mlt_deque_push_back(@, Entry("int", "", NULL, that))]

\* mlt_frame_push_audio
mlt_frame_push_audio(f, that) ==
  [f EXCEPT !.stack_audio = mlt_deque_push_back(@, that)]

\* line 237: while( mlt_deque_pop_back( this->stack_image ) ) ;
RECURSIVE PopWhileNonNull(_)
PopWhileNonNull(dq) ==
  LET p == mlt_deque_pop_back(dq)
  IN IF p.null THEN p.dq ELSE PopWhileNonNull(p.dq)

\* mlt_frame_replace_image
mlt_frame_replace_image(f, image, format, width, height) ==
  [f EXCEPT !.stack_image = PopWhileNonNull(@),
            !.image = image, !.image_size = 0,
            !.width = width, !.height = height,
            !.format = format, !.get_alpha_mask = NULL]

\* ---------------------------------------------------- mlt_frame_get_image
\* the parameters of mlt_frame_get_image: *buffer, *format, *width and
\* *height as the caller has set them, and writable
Params(buffer, format, width, height, writable) ==
  [buffer |-> buffer, format |-> format, width |-> width, height |-> height,
   writable |-> writable]

\* what a call has written to its parameters, its return value and the
\* frame after it
Returned(f, buffer, format, width, height, error) ==
  [f |-> f, buffer |-> buffer, format |-> format, width |-> width,
   height |-> height, error |-> error]

Logged(f, ev, e, a) ==
  [f EXCEPT !.log = Append(@, [ev |-> ev, id |-> e.id, format |-> a.format,
                               width |-> a.width, height |-> a.height,
                               writable |-> a.writable])]

\* what a callback of a collaborator does to the position of the frame
\* while it runs: the callback with id i leaves the position i - 2, which
\* is negative, 0 or positive; the resize filter leaves the position alone
Sought(f, e) ==
  IF e.kind = "get_image" /\ e.type = "filter" THEN f
  ELSE mlt_frame_set_position(f, e.id - 2)

RECURSIVE mlt_frame_get_image(_, _, _)
RECURSIVE InvokeGetImage(_, _, _, _)

\* filter_get_image without line 53: the aspect ratio stays on the stack
filter_get_image_one_pop(f, a, env) ==
  LET s  == mlt_frame_pop_service(f)
      d  == mlt_deque_pop_back(s.f.stack_image)
      f1 == s.f
      a1 == IF a.width = 0 \/ a.height = 0
            THEN [a EXCEPT !.width = f1.normalised_width,
                           !.height = f1.normalised_height]
            ELSE a
      f2 == [f1 EXCEPT !.aspect_ratio = IF d.e.v = 0 THEN f1.consumer_aspect_ratio
                                        ELSE d.e.v,
                       !.fault = @ \/ s.e.kind # "service"
                                   \/ d.e.kind # "double"]
  IN mlt_frame_get_image(f2, a1, env)

\* filter_get_image of filter_resize.c on a frame whose rescale.interp is
\* "none": the filter and the aspect ratio are popped, a request without
\* size gets the normalised size, the aspect ratio is reset (0.0 gives the
\* consumer's, which is not set), and the image is got down the line
filter_get_image(f, a, env) ==
  LET s  == mlt_frame_pop_service(f)
      d  == mlt_deque_pop_back(s.f.stack_image)
      f1 == [s.f EXCEPT !.stack_image = d.dq]
      a1 == IF a.width = 0 \/ a.height = 0
            THEN [a EXCEPT !.width = f1.normalised_width,
                           !.height = f1.normalised_height]
            ELSE a
      f2 == [f1 EXCEPT !.aspect_ratio = IF d.e.v = 0 THEN f1.consumer_aspect_ratio
                                        ELSE d.e.v,
                       !.fault = @ \/ s.e.kind # "service"
                                   \/ d.e.kind # "double"]
  IN mlt_frame_get_image(f2, a1, env)

\* error = get_image( this, buffer, format, width, height, writable ) for
\* the callback of entry e:
\*   producer     stores its buffer as the frame's image and returns it
\*   plain        returns its buffer and stores nothing
\*   fail         leaves the parameters as they are and returns an error
\*   filter       filter_get_image
\*   pusher       pushes a producer callback and gets the image down the line
\*   pusher_only  pushes a producer callback and returns its own buffer
\* an entry that is no callback is called as one: undefined behaviour
InvokeGetImage(e, f, a, env) ==
  LET f0 == Sought(Logged(f, "call", e, a), e)
      w  == IF a.width = 0 THEN f.width ELSE a.width
      h  == IF a.height = 0 THEN f.height ELSE a.height
      r  == IF e.kind # "get_image"
            THEN Returned([f0 EXCEPT !.fault = TRUE],
                          a.buffer, a.format, a.width, a.height, 1)
            ELSE IF e.type = "producer"
            THEN Returned([f0 EXCEPT !.image = e.id, !.image_size = w * h * 2,
                                     !.width = w, !.height = h,
                                     !.format = "yuv422"],
                          e.id, "yuv422", w, h, 0)
            ELSE IF e.type = "plain"
            THEN Returned(f0, e.id, a.format, a.width, a.height, 0)
            ELSE IF e.type = "fail"
            THEN Returned(f0, a.buffer, a.format, a.width, a.height, 1)
            ELSE IF e.type = "filter"
            THEN filter_get_image(f0, a, env)
            ELSE IF e.type = "pusher"
            THEN mlt_frame_get_image(
                   mlt_frame_push_get_image(f0,
                     Entry("get_image", "producer", PushedStep(e.id), 0)), a, env)
            ELSE Returned(mlt_frame_push_get_image(f0,
                            Entry("get_image", "producer", PushedStep(e.id), 0)),
                          e.id, a.format, a.width, a.height, 0)
  IN [r EXCEPT !.f = Logged(r.f, "ret", e, a)]

\* the pixel formats of mlt_image_format
Formats == {"none", "rgb24", "rgb24a", "yuv422", "yuv420p", "opengl"}

\* lines 305 and 312-350: the size in bytes of the placeholder
PlaceholderSize(format, width, height) ==
  LET size == width * height
  IN IF format = "none" THEN 0
     ELSE IF format = "rgb24" THEN size * 3 + width * 3
     ELSE IF format \in {"rgb24a", "opengl"} THEN size * 4 + width * 4
     ELSE IF format = "yuv422" THEN size * 2 + width * 2
     ELSE IF format = "yuv420p" THEN (size * 3) \div 2
     ELSE size

\* lines 297-355 without lines 352 and 353: the placeholder is returned and
\* neither stored nor flagged
Placeholder_not_stored(f, a, env) ==
  LET w   == IF a.width = 0 THEN 720 ELSE a.width
      h   == IF a.height = 0 THEN 576 ELSE a.height
      buf == IF a.format = "none" \/ ~env.alloc THEN NULL
             ELSE IF a.format \in Formats THEN PlaceholderImage
             ELSE a.buffer
  IN Returned([f EXCEPT !.format = a.format, !.width = w, !.height = h,
                        !.aspect_ratio = 0],
              buf, a.format, w, h, 0)

\* lines 297-355: the placeholder of the requested size and format; the
\* pool gives a buffer (env.alloc) or none, and a format the switch does
\* not know leaves *buffer as the caller has set it
Placeholder(f, a, env) ==
  LET w   == IF a.width = 0 THEN 720 ELSE a.width
      h   == IF a.height = 0 THEN 576 ELSE a.height
      buf == IF a.format = "none" \/ ~env.alloc THEN NULL
             ELSE IF a.format \in Formats THEN PlaceholderImage
             ELSE a.buffer
  IN Returned([f EXCEPT !.format = a.format, !.width = w, !.height = h,
                        !.aspect_ratio = 0, !.image = buf,
                        !.image_size = PlaceholderSize(a.format, w, h),
                        !.test_image = 1],
              buf, a.format, w, h, 0)

\* lines 274-296 with an error returned at lines 292-295 when the test
\* card producer gives no frame
TestCard_gives_up(f, a, env) ==
  IF env.card
  THEN LET w == IF a.width = 0 THEN 720 ELSE a.width
           h == IF a.height = 0 THEN 576 ELSE a.height
       IN Returned([f EXCEPT !.test_card_frame = 1, !.image = TestCardImage,
                             !.image_size = w * h * 2, !.width = w, !.height = h, !.format = "yuv422",
                             !.aspect_ratio = 1],
                   TestCardImage, "yuv422", w, h, 0)
  ELSE Returned(f, a.buffer, a.format, a.width, a.height, 1)

\* lines 274-296: the test card producer gives a frame (env.card) whose
\* image becomes the image of this frame, or no frame
TestCard(f, a, env) ==
  IF env.card
  THEN LET w == IF a.width = 0 THEN 720 ELSE a.width
           h == IF a.height = 0 THEN 576 ELSE a.height
       IN Returned([f EXCEPT !.test_card_frame = 1, !.image = TestCardImage,
                             !.image_size = w * h * 2, !.width = w, !.height = h, !.format = "yuv422",
                             !.aspect_ratio = 1],
                   TestCardImage, "yuv422", w, h, 0)
  ELSE mlt_frame_get_image([f EXCEPT !.test_card_producer = NULL], a, env)

\* mlt_frame_get_image without lines 267-273: an image stored in the
\* properties is not looked at
mlt_frame_get_image_no_memo(f, a, env) ==
  LET p  == mlt_frame_pop_get_image(f)
      r  == IF ~p.null
            THEN LET f1 == [p.f EXCEPT !.image_count = @ - 1]
                     position == mlt_frame_get_position(f1)
                     c  == InvokeGetImage(p.e, f1, a, env)
                 IN [c EXCEPT !.f = mlt_frame_set_position(
                                      [c.f EXCEPT !.width = c.width,
                                                  !.height = c.height,
                                                  !.format = c.format],
                                      position)]
            ELSE IF p.f.test_card_producer # NULL
            THEN TestCard(p.f, a, env)
            ELSE Placeholder(p.f, a, env)
  IN [r EXCEPT !.f.scaled_width = r.width, !.f.scaled_height = r.height]

\* mlt_frame_get_image with the branches of lines 267 and 274 exchanged:
\* the test card producer comes before the image of the properties
mlt_frame_get_image_card_first(f, a, env) ==
  LET p  == mlt_frame_pop_get_image(f)
      r  == IF ~p.null
            THEN LET f1 == [p.f EXCEPT !.image_count = @ - 1]
                     position == mlt_frame_get_position(f1)
                     c  == InvokeGetImage(p.e, f1, a, env)
                 IN [c EXCEPT !.f = mlt_frame_set_position(
                                      [c.f EXCEPT !.width = c.width,
                                                  !.height = c.height,
                                                  !.format = c.format],
                                      position)]
            ELSE IF p.f.test_card_producer # NULL
            THEN TestCard(p.f, a, env)
            ELSE IF p.f.image # NULL
            THEN Returned(p.f, p.f.image, p.f.format, p.f.width, p.f.height, 0)
            ELSE Placeholder(p.f, a, env)
  IN [r EXCEPT !.f.scaled_width = r.width, !.f.scaled_height = r.height]

\* mlt_frame_get_image without lines 263-265 and 357-358: what the
\* callback has returned is not written to the properties
mlt_frame_get_image_not_written(f, a, env) ==
  LET p  == mlt_frame_pop_get_image(f)
  IN IF ~p.null
     THEN LET f1 == [p.f EXCEPT !.image_count = @ - 1]
              c  == InvokeGetImage(p.e, f1, a, env)
          IN [c EXCEPT !.f = mlt_frame_set_position(c.f,
                                                    mlt_frame_get_position(f1))]
     ELSE IF p.f.image # NULL
     THEN Returned(p.f, p.f.image, p.f.format, p.f.width, p.f.height, 0)
     ELSE IF p.f.test_card_producer # NULL
     THEN TestCard(p.f, a, env)
     ELSE Placeholder(p.f, a, env)

\* mlt_frame_get_image( this, buffer, format, width, height, writable )
mlt_frame_get_image(f, a, env) ==
  LET p  == mlt_frame_pop_get_image(f)
      r  == IF ~p.null
            THEN LET f1 == [p.f EXCEPT !.image_count = @ - 1]
                     position == mlt_frame_get_position(f1)
                     c  == InvokeGetImage(p.e, f1, a, env)
                 IN [c EXCEPT !.f = mlt_frame_set_position(
                                      [c.f EXCEPT !.width = c.width,
                                                  !.height = c.height,
                                                  !.format = c.format],
                                      position)]
            ELSE IF p.f.image # NULL
            THEN Returned(p.f, p.f.image, p.f.format, p.f.width, p.f.height, 0)
            ELSE IF p.f.test_card_producer # NULL
            THEN TestCard(p.f, a, env)
            ELSE Placeholder(p.f, a, env)
  IN [r EXCEPT !.f.scaled_width = r.width, !.f.scaled_height = r.height]

\* ---------------------------------------------------- mlt_frame_get_audio
\* the parameters of mlt_frame_get_audio: *frequency, *channels and
\* *samples as the caller has set them
AudioParams(frequency, channels, samples) ==
  [frequency |-> frequency, channels |-> channels, samples |-> samples]

\* what a call has written to its parameters and the frame after it
AudioReturned(f, buffer, frequency, channels, samples) ==
  [f |-> f, buffer |-> buffer, frequency |-> frequency,
   channels |-> channels, samples |-> samples]

\* memset( buffer, 0, total * 2 ) on the samples of a buffer
ZeroSamples(pcm, total) ==
  Pcm([i \in 1..Len(pcm.s) |-> IF i <= total THEN 0 ELSE pcm.s[i]], pcm.z)

\* *p = *p * value: the product as a double, converted to int16_t towards
\* zero; value is given in halves
ScaleSample(p, halves) ==
  IF p * halves >= 0 THEN (p * halves) \div 2
  ELSE 0 - ((0 - p * halves) \div 2)

\* lines 430-436 on the samples of a buffer
ScaleSamples(pcm, total, halves) ==
  Pcm([i \in 1..Len(pcm.s) |->
         IF i <= total THEN ScaleSample(pcm.s[i], halves) ELSE pcm.s[i]],
      pcm.z)

\* mlt_properties_get_double of the strings that meta.volume is set to, in
\* halves
VolumeHalves(str) == IF str = "0.0" THEN 0 ELSE IF str = "0.5" THEN 1 ELSE 2

\* lines 420-440 without line 439: meta.volume is applied and stays set
ApplyVolume_not_cleared(r) ==
  IF r.f.meta_volume = "" THEN r
  ELSE LET halves == VolumeHalves(r.f.meta_volume)
           total  == r.samples * r.channels
           len    == IF r.buffer = NULL THEN 0
                     ELSE Len(r.f.pcm[r.buffer].s) + r.f.pcm[r.buffer].z
           f1     == IF halves = 2 \/ r.buffer = NULL THEN r.f
                     ELSE IF halves = 0
                     THEN [r.f EXCEPT !.pcm[r.buffer] = ZeroSamples(@, total)]
                     ELSE [r.f EXCEPT !.pcm[r.buffer] =
                                        ScaleSamples(@, total, halves)]
       IN [r EXCEPT !.f = [f1 EXCEPT !.fault = @ \/ (halves # 2 /\ total > len)]]

\* lines 420-440: a meta.volume that is set is applied to the first
\* *samples * *channels samples of *buffer and then unset; writing through
\* a null pointer or past the end of the buffer is undefined behaviour
ApplyVolume(r) ==
  IF r.f.meta_volume = "" THEN r
  ELSE LET halves == VolumeHalves(r.f.meta_volume)
           total  == r.samples * r.channels
           len    == IF r.buffer = NULL THEN 0
                     ELSE Len(r.f.pcm[r.buffer].s) + r.f.pcm[r.buffer].z
           f1     == IF halves = 2 \/ r.buffer = NULL THEN r.f
                     ELSE IF halves = 0
                     THEN [r.f EXCEPT !.pcm[r.buffer] = ZeroSamples(@, total)]
                     ELSE [r.f EXCEPT !.pcm[r.buffer] =
                                        ScaleSamples(@, total, halves)]
       IN [r EXCEPT !.f = [f1 EXCEPT !.meta_volume = "",
                                     !.fault = @ \/ (halves # 2 /\ total > len)]]

RECURSIVE mlt_frame_get_audio(_, _, _)

\* get_audio( this, buffer, format, frequency, channels, samples ) for the
\* callback of entry e:
\*   producer  makes its buffer of 2 samples in 2 channels at 48000 Hz,
\*             stores it as the frame's audio and returns it
\*   plain     makes its buffer of 2 samples in 1 channel at the requested
\*             frequency and returns it, and stores nothing
\*   wide      makes its buffer of 1 sample in 7 channels, stores and
\*             returns it
\*   long      makes its buffer of 4001 samples in 1 channel, stores and
\*             returns it
\*   nested    gets the audio down the line
\* plain leaves the position of the frame at -1, nested leaves it alone
\* and the others leave it at 7
\* an entry that is no callback is called as one: undefined behaviour
InvokeGetAudio(e, f, a, env) ==
  LET f0 == [f EXCEPT !.log = Append(@, [ev |-> "audio", id |-> e.id,
                                         format |-> "", width |-> 0,
                                         height |-> 0, writable |-> 0]),
                      !.position = IF e.type = "nested" THEN @
                                   ELSE IF e.type = "plain" THEN -1
                                   ELSE 7]
  IN IF e.kind # "get_audio"
     THEN AudioReturned([f0 EXCEPT !.fault = TRUE], NULL, a.frequency,
                        a.channels, a.samples)
     ELSE IF e.type = "producer"
     THEN AudioReturned([f0 EXCEPT !.audio = e.id,
                                   !.pcm[e.id] = Pcm(<<6, -5, 4, -3>>, 0)],
                        e.id, 48000, 2, 2)
     ELSE IF e.type = "plain"
     THEN AudioReturned([f0 EXCEPT !.pcm[e.id] = Pcm(<<7, -8>>, 0)],
                        e.id, a.frequency, 1, 2)
     ELSE IF e.type = "wide"
     THEN AudioReturned([f0 EXCEPT !.audio = e.id,
                                   !.pcm[e.id] = Pcm(<<1, 2, 3, 4, 5, 6, 7>>, 0)],
                        e.id, 48000, 7, 1)
     ELSE IF e.type = "long"
     THEN AudioReturned([f0 EXCEPT !.audio = e.id,
                                   !.pcm[e.id] = Pcm(<<5, 3>>, 3999)],
                        e.id, 48000, 1, 4001)
     ELSE mlt_frame_get_audio(f0, a, env)

\* lines 402-414: silence of the requested size; the pool gives a buffer
\* (env.alloc) or none
Silence(f, a, env) ==
  LET samples   == IF a.samples <= 0 THEN 1920 ELSE a.samples
      channels  == IF a.channels <= 0 THEN 2 ELSE a.channels
      frequency == IF a.frequency <= 0 THEN 48000 ELSE a.frequency
      buf       == IF env.alloc THEN SilenceBuffer ELSE NULL
      f1        == IF env.alloc
                   THEN [f EXCEPT !.pcm[SilenceBuffer] =
                                    Pcm(<<>>, samples * channels)]
                   ELSE f
  IN AudioReturned([f1 EXCEPT !.audio = buf, !.test_audio = 1],
                   buf, frequency, channels, samples)

\* mlt_frame_get_audio that calls the callback whatever test_audio is
mlt_frame_get_audio_not_hidden(f, a, env) ==
  LET p  == mlt_deque_pop_back(f.stack_audio)
      f1 == [f EXCEPT !.stack_audio = p.dq]
      r  == IF ~p.null
            THEN LET position == mlt_frame_get_position(f1)
                     c == InvokeGetAudio(p.e, f1, a, env)
                 IN [c EXCEPT !.f = mlt_frame_set_position(c.f, position)]
            ELSE IF f1.audio # NULL
            THEN AudioReturned(f1, f1.audio, f1.audio_frequency,
                               f1.audio_channels, f1.audio_samples)
            ELSE Silence(f1, a, env)
  IN ApplyVolume([r EXCEPT !.f.audio_frequency = r.frequency,
                           !.f.audio_channels = r.channels,
                           !.f.audio_samples = r.samples])

\* mlt_frame_get_audio that pops the callback only to call it: with
\* test_audio set the audio stack is left as it is
mlt_frame_get_audio_kept(f, a, env) ==
  LET p  == mlt_deque_pop_back(f.stack_audio)
      f1 == IF f.test_audio = 0 THEN [f EXCEPT !.stack_audio = p.dq] ELSE f
      r  == IF f1.test_audio = 0 /\ ~p.null
            THEN LET position == mlt_frame_get_position(f1)
                     c == InvokeGetAudio(p.e, f1, a, env)
                 IN [c EXCEPT !.f = mlt_frame_set_position(c.f, position)]
            ELSE IF f1.audio # NULL
            THEN AudioReturned(f1, f1.audio, f1.audio_frequency,
                               f1.audio_channels, f1.audio_samples)
            ELSE Silence(f1, a, env)
  IN ApplyVolume([r EXCEPT !.f.audio_frequency = r.frequency,
                           !.f.audio_channels = r.channels,
                           !.f.audio_samples = r.samples])

\* mlt_frame_get_audio( this, buffer, format, frequency, channels, samples )
mlt_frame_get_audio(f, a, env) ==
  LET p  == mlt_deque_pop_back(f.stack_audio)
      f1 == [f EXCEPT !.stack_audio = p.dq]
      r  == IF f1.test_audio = 0 /\ ~p.null
            THEN LET position == mlt_frame_get_position(f1)
                     c == InvokeGetAudio(p.e, f1, a, env)
                 IN [c EXCEPT !.f = mlt_frame_set_position(c.f, position)]
            ELSE IF f1.audio # NULL
            THEN AudioReturned(f1, f1.audio, f1.audio_frequency,
                               f1.audio_channels, f1.audio_samples)
            ELSE Silence(f1, a, env)
  IN ApplyVolume([r EXCEPT !.f.audio_frequency = r.frequency,
                           !.f.audio_channels = r.channels,
                           !.f.audio_samples = r.samples])

\* ------------------------------------------------------- mlt_frame_close
\* mlt_frame_push_frame: the frame that goes on the image stack
mlt_frame_push_frame(f, that) ==
  [f EXCEPT !.stack_image = mlt_deque_push_back(@, Entry("frame", "", that, 0))]

\* mlt_frame_pop_frame
mlt_frame_pop_frame(f) ==
  LET p == mlt_deque_pop_back(f.stack_image)
  IN [f |-> [f EXCEPT !.stack_image = p.dq], e |-> p.e, null |-> p.null]

\* mlt_frame_service_stack
mlt_frame_service_stack(f) == f.stack_service

\* mlt_deque_peek_back: the last entry, or a null pointer
mlt_deque_peek_back(dq) == IF dq = <<>> THEN NoEntry ELSE dq[Len(dq)]

\* mlt_deque_close: the storage of the deque is released; its entries are
\* addresses and numbers of which the deque knows nothing
mlt_deque_close(f, name) ==
  [f EXCEPT !.closes = Append(@, [ev |-> "deque_close", id |-> name])]

\* lines 512-513 with the stack taken from the front: the services are
\* closed in the order of their push
RECURSIVE CloseServices_fifo(_)
CloseServices_fifo(f) ==
  IF f.stack_service = <<>> \/ IsNullAddress(Head(f.stack_service)) THEN f
  ELSE CloseServices_fifo(
         [f EXCEPT !.stack_service = Tail(@),
                   !.closes = Append(@, [ev |-> "service_close",
                                         id |-> Head(f.stack_service).id])])

\* lines 512-513: while the last entry of the service stack is not null it
\* is popped and mlt_service_close is called on it
RECURSIVE CloseServices(_)
CloseServices(f) ==
  IF IsNullAddress(mlt_deque_peek_back(f.stack_service)) THEN f
  ELSE LET p == mlt_deque_pop_back(f.stack_service)
       IN CloseServices(
            [f EXCEPT !.stack_service = p.dq,
                      !.closes = Append(@, [ev |-> "service_close",
                                            id |-> p.e.id])])

\* mlt_frame_close: mlt_properties_dec_ref, and at a count of zero or less
\* the stacks are closed, the services closed, the properties closed and
\* the frame released
mlt_frame_close(f) ==
  LET f1 == [f EXCEPT !.ref_count = @ - 1]
  IN IF f1.ref_count <= 0
     THEN LET f2 == mlt_deque_close(f1, "stack_image")
              f3 == mlt_deque_close(f2, "stack_audio")
              f4 == CloseServices(f3)
              f5 == mlt_deque_close(f4, "stack_service")
          IN [f5 EXCEPT !.closes = Append(@, [ev |-> "properties_close",
                                              id |-> "parent"]),
                        !.freed = TRUE]
     ELSE f1

\* filter_process of filter_resize.c: the aspect ratio, the filter and its
\* get_image callback are pushed
filter_process(f, id) ==
  mlt_frame_push_get_image(
    mlt_frame_push_service(
      [f EXCEPT !.stack_image =
         mlt_deque_push_back(@, Entry("double", "", NULL, f.aspect_ratio))],
      Entry("service", "", id, 0)),
    Entry("get_image", "filter", id, 0))

\* ---------------------------------------------------- mlt_frame_mix_audio
\* the sample at the index i (from 0) of a buffer, and its length
Sample(pcm, i) == IF i < Len(pcm.s) THEN pcm.s[i + 1] ELSE 0
PcmLen(pcm) == Len(pcm.s) + pcm.z

\* dest[ i ] = v
WriteSample(pcm, i, v) ==
  LET n == IF i < Len(pcm.s) THEN Len(pcm.s) ELSE i + 1
  IN Pcm([k \in 1..n |-> IF k = i + 1 THEN v ELSE Sample(pcm, k - 1)],
         pcm.z - (n - Len(pcm.s)))

\* a pointer to the buffer id of the frame fr; all null pointers are equal
Pointer(fr, id) == IF id = NULL THEN [fr |-> 0, id |-> NULL]
                   ELSE [fr |-> fr, id |-> id]

\* lines 1130-1137 without the limit: the count is taken as it is
MixClamp_none(n, limit) == n

\* lines 1130-1137: a count above the limit is taken as 0
MixClamp(n, limit) == IF n > limit THEN 0 ELSE n

\* src[ i * channels_dest + j ]: the source read with the stride of the
\* destination
SrcIndex_dest_stride(i, j, channels_src, channels_dest) == i * channels_dest + j

\* src[ i * channels_src + j ]
SrcIndex(i, j, channels_src, channels_dest) == i * channels_src + j

\* s * weight + d * ( 1.0 - weight ) as a double, converted to int16_t
\* towards zero; the weight is given in eighths
MixSample(s, d, weight) ==
  LET v == s * weight + d * (8 - weight)
  IN IF v >= 0 THEN v \div 8 ELSE 0 - ((0 - v) \div 8)

\* lines 1159-1170, from the sample i and the channel j on: dest is mixed
\* with src sample by sample, the weight goes up by weight_step per sample
RECURSIVE Mixdown(_, _, _, _, _, _, _, _, _, _)
Mixdown(dest, src, i, j, samples, channels, channels_dest, channels_src, weight, weight_step) ==
  IF i >= samples THEN dest
  ELSE IF j >= channels
  THEN Mixdown(dest, src, i + 1, 0, samples, channels, channels_dest,
               channels_src, weight + weight_step, weight_step)
  ELSE LET d == Sample(dest, i * channels_dest + j)
           s == Sample(src, SrcIndex(i, j, channels_src, channels_dest))
       IN Mixdown(WriteSample(dest, i * channels_dest + j,
                              MixSample(s, d, weight)),
                  src, i, j + 1, samples, channels, channels_dest,
                  channels_src, weight, weight_step)

\* what lines 1117-1118 have got: the frames after both calls, the pointers
\* src and dest and the counts that rs (of that) and rd (of this) returned
MixPointers(fs, this, that, rs, rd) ==
  [fs |-> [fs EXCEPT ![this] = rd.f], src |-> Pointer(that, rs.buffer),
   dest |-> Pointer(this, rd.buffer),
   frequency_src |-> rs.frequency, channels_src |-> rs.channels,
   samples_src |-> rs.samples, frequency_dest |-> rd.frequency,
   channels_dest |-> rd.channels, samples_dest |-> rd.samples]

\* line 1118 after line 1117 has returned rs: the audio of this is got from
\* the frames as the first call left them
MixResolvedDest(fs1, this, that, a, env, rs) ==
  MixPointers(fs1, this, that, rs, mlt_frame_get_audio(fs1[this], a, env))

\* the frames fs with the frame that as the call of line 1117 left it
MixResolvedSrc(fs, this, that, a, env, rs) ==
  MixResolvedDest([fs EXCEPT ![that] = rs.f], this, that, a, env, rs)

\* lines 1117-1118: the audio of that and then of this is got with the
\* frequency, channels and samples the caller asks for; fs are the frames
MixResolved(fs, this, that, a, env) ==
  MixResolvedSrc(fs, this, that, a, env,
                 mlt_frame_get_audio(fs[that], a, env))

\* lines 1120-1128 for the frame fr and its buffer p of total samples: a
\* silent_audio that is set is unset and the buffer filled with 0; a null
\* pointer or a buffer shorter than total is undefined behaviour
MixSilence(fs, fr, p, total) ==
  IF fs[fr].silent_audio = 0 THEN fs
  ELSE LET f1 == [fs[fr] EXCEPT !.silent_audio = 0]
       IN IF p.id = NULL
          THEN [fs EXCEPT ![fr] = [f1 EXCEPT !.fault = @ \/ total > 0]]
          ELSE [fs EXCEPT
                  ![fr] = f1,
                  ![p.fr] = [(IF p.fr = fr THEN f1 ELSE fs[p.fr]) EXCEPT
                               !.pcm[p.id] = ZeroSamples(@, total),
                               !.fault = @ \/
                                 total > PcmLen(fs[p.fr].pcm[p.id])]]

\* what mlt_frame_mix_audio has written to its parameters, its return
\* value and the frames after it
MixReturned(fs, buffer, frequency, channels, samples, ret) ==
  [fs |-> fs, buffer |-> buffer, frequency |-> frequency,
   channels |-> channels, samples |-> samples, ret |-> ret]

\* lines 1130-1141: the counts of source and destination within their
\* limits, and the samples and channels to mix
MixCounts(channels_src, channels_dest, samples_src, samples_dest) ==
  [channels_src |-> channels_src, channels_dest |-> channels_dest,
   samples_src |-> samples_src, samples_dest |-> samples_dest,
   samples |-> IF samples_src < samples_dest THEN samples_src
               ELSE samples_dest,
   channels |-> IF channels_src < channels_dest THEN channels_src
                ELSE channels_dest]

\* lines 1142-1172 on the frames fs4 that lines 1120-1128 left, with the
\* counts c of lines 1130-1141
MixFrom(g, fs4, c, this, that, weight_start, weight_end) ==
  IF g.src = g.dest
  THEN MixReturned(fs4, g.src, g.frequency_src, c.channels_src,
                   c.samples_src, 0)
  ELSE IF c.samples <= 0 \/ c.channels <= 0
  THEN MixReturned(fs4, g.dest, g.frequency_dest, c.channels, c.samples, 0)
  ELSE IF g.src.id = NULL \/ g.dest.id = NULL
  THEN MixReturned([fs4 EXCEPT ![this].fault = TRUE], g.dest,
                   g.frequency_dest, c.channels, c.samples, 0)
  ELSE MixReturned(
         [fs4 EXCEPT ![this].pcm[g.dest.id] =
            Mixdown(@, fs4[that].pcm[g.src.id], 0, 0, c.samples, c.channels,
                    c.channels_dest, c.channels_src, weight_start,
                    (weight_end - weight_start) \div c.samples)],
         g.dest, g.frequency_dest, c.channels, c.samples, 0)

\* what lines 1117-1118 of a call have got: the pointers and counts, the
\* samples of both buffers and the silent_audio of both frames
MixGot(g, this, that) ==
  [src |-> g.src, dest |-> g.dest,
   frequency_src |-> g.frequency_src, channels_src |-> g.channels_src,
   samples_src |-> g.samples_src, frequency_dest |-> g.frequency_dest,
   channels_dest |-> g.channels_dest, samples_dest |-> g.samples_dest,
   src0 |-> IF g.src.id = NULL THEN Pcm(<<>>, 0)
            ELSE g.fs[g.src.fr].pcm[g.src.id],
   dest0 |-> IF g.dest.id = NULL THEN Pcm(<<>>, 0)
             ELSE g.fs[g.dest.fr].pcm[g.dest.id],
   silent_this |-> g.fs[this].silent_audio,
   silent_that |-> g.fs[that].silent_audio]

\* what the call returned (r) together with what its lines 1117-1118 had
\* got, which the caller cannot see
WithGot(r, got) ==
  [fs |-> r.fs, buffer |-> r.buffer, frequency |-> r.frequency,
   channels |-> r.channels, samples |-> r.samples, ret |-> r.ret,
   got |-> got]

\* lines 1120-1172 on what lines 1117-1118 have got
MixGotten(g, this, that, weight_start, weight_end) ==
  WithGot(MixFrom(g,
                  MixSilence(MixSilence(g.fs, this, g.dest,
                                        g.samples_dest * g.channels_dest),
                             that, g.src, g.samples_src * g.channels_src),
                  MixCounts(MixClamp(g.channels_src, 6),
                            MixClamp(g.channels_dest, 6),
                            MixClamp(g.samples_src, 4000),
                            MixClamp(g.samples_dest, 4000)),
                  this, that, weight_start, weight_end),
          MixGot(g, this, that))

\* mlt_frame_mix_audio( this, that, weight_start, weight_end, buffer,
\* format, frequency, channels, samples ); the weights are given in eighths
mlt_frame_mix_audio(fs, this, that, weight_start, weight_end, a, env) ==
  MixGotten(MixResolved(fs, this, that, a, env), this, that, weight_start,
            weight_end)

\* ------------------------------------------------- mlt_sample_calculator
RECURSIVE Pow2(_)
Pow2(n) == IF n = 0 THEN 1 ELSE 2 * Pow2(n - 1)

\* a float of the value m / 2^k, m of at most 24 bits
Float(m, k) == [m |-> m, k |-> k]

\* the float nearest to 29.97, and the frame rates that are integers
Ntsc == Float(15712911, 19)
IntegerRates == {Float(24, 0), Float(25, 0), Float(30, 0)}

\* the least s with p < 2^(24 + s)
RECURSIVE MantissaShift(_, _)
MantissaShift(p, s) ==
  IF p \div Pow2(s) < Pow2(24) THEN s ELSE MantissaShift(p, s + 1)

\* p / 2^s rounded to the nearest integer, a tie to the even one
RoundShift(p, s) ==
  LET d == Pow2(s)
      q == p \div d
      r == p % d
  IN IF 2 * r > d \/ (2 * r = d /\ q % 2 = 1) THEN q + 1 ELSE q

\* ( int )( fps * 100 ): the product rounded to a float of 24 bits, and
\* that float cut to an int
FpsTimes100(fps) ==
  LET p == fps.m * 100
      s == MantissaShift(p, 0)
  IN (RoundShift(p, s) * Pow2(s)) \div Pow2(fps.k)

\* ( int )fps
IntOfFps(fps) == fps.m \div Pow2(fps.k)

\* mlt_sample_calculator( fps, frequency, position ) for a position that
\* is not negative and a frame rate that is 29.97 or an integer (the
\* quotient frequency / fps of floats, cut to an int, is then the integer
\* quotient)
mlt_sample_calculator(fps, frequency, position) ==
  IF FpsTimes100(fps) = 2997
  THEN IF frequency = 48000
       THEN frequency \div 30 + (IF position % 5 # 0 THEN 2 ELSE 0)
       ELSE IF frequency = 44100
       THEN IF position % 300 = 0 THEN 1471
            ELSE IF position % 30 = 0 THEN 1470
            ELSE IF position % 2 = 0 THEN 1472
            ELSE 1471
       ELSE IF frequency = 32000
       THEN IF position % 30 = 0 THEN 1068
            ELSE IF position % 29 = 0 THEN 1067
            ELSE IF position % 4 = 2 THEN 1067
            ELSE 1068
       ELSE 0
  ELSE IF fps.m # 0 THEN frequency \div IntOfFps(fps)
  ELSE 0

\* mlt_sample_calculator_to_now( fps, frequency, frame ) for a frame that
\* is not negative
mlt_sample_calculator_to_now(fps, frequency, frm) ==
  IF FpsTimes100(fps) = 2997
  THEN (frm * frequency) \div 30
       + (IF frequency = 48000 THEN 2 * (frm \div 5)
          ELSE IF frequency = 44100
          THEN frm + (frm \div 2) - (frm \div 30) + (frm \div 300)
          ELSE IF frequency = 32000
          THEN (2 * frm) - (frm \div 4) - (frm \div 29)
          ELSE 0)
  ELSE IF fps.m # 0 THEN (frm * frequency) \div IntOfFps(fps)
  ELSE 0

\* ------------------------------------------------- mlt_frame_resize_yuv422
\* A block of bytes is the sequence b of its bytes (the byte at offset k is
\* b[k + 1]); null is the pointer NULL.
Buf(b) == [null |-> FALSE, b |-> b]

NullBuf == [null |-> TRUE, b |-> <<>>]

\* mlt_pool_alloc: a block of size bytes that nothing has written yet: its
\* bytes are what the pool left there (env.junk), or NULL
mlt_pool_alloc(size, env) ==
  IF env.alloc THEN Buf([k \in 1..size |-> env.junk]) ELSE NullBuf

\* the / and % of C on int, which truncate towards 0
CDiv(a, b) == IF a >= 0 THEN a \div b ELSE -((-a) \div b)

CRem(a, b) == a - b * CDiv(a, b)

\* the row of the input that is the last one copied over the byte k of the
\* output, -1 if none is: the rows lie stride bytes apart from the offset
\* base on, and each holds used bytes
RowOver(k, base, stride, used, rows) ==
  LET ys == {y \in 0..(rows - 1) :
               k - base - y * stride >= 0 /\ k - base - y * stride < used}
  IN IF ys = {} THEN -1 ELSE CHOOSE y \in ys : \A z \in ys : z <= y

\* the rows copied lie within both blocks
RowsInside(base, stride, used, rows, olen, istride, ilen) ==
  rows > 0 =>
    /\ base >= 0
    /\ base + (rows - 1) * stride + used <= olen
    /\ (rows - 1) * istride + used <= ilen

\* mlt_resize_yuv422 without its test of the sizes
mlt_resize_yuv422_any_size(output, owidth, oheight, input, iwidth, iheight) ==
  LET istride == iwidth * 2
      ostride == owidth * 2
      size == owidth * oheight
      offset_y == CDiv(oheight - iheight, 2)
      offset_x == (owidth - iwidth) - CRem(owidth - iwidth, 4)
      base == offset_y * ostride + offset_x
      olen == Len(output.b)
  IN
  IF output.null \/ input.null
  THEN [output |-> output, fault |-> FALSE]
  ELSE IF iwidth = owidth /\ iheight = oheight
  THEN [output |-> Buf([k \in 1..olen |->
                          IF k <= iheight * istride /\ k <= Len(input.b)
                          THEN input.b[k] ELSE output.b[k]]),
        fault |-> iheight * istride > olen
                    \/ iheight * istride > Len(input.b)]
  ELSE [output |-> Buf([k \in 1..olen |->
                          LET y == RowOver(k - 1, base, ostride, iwidth * 2,
                                           iheight)
                              from == y * istride + (k - 1 - base - y * ostride)
                          IN IF y >= 0 /\ from < Len(input.b)
                             THEN input.b[from + 1]
                             ELSE IF k <= size * 2
                             THEN (IF k % 2 = 1 THEN 16 ELSE 128)
                             ELSE output.b[k]]),
        fault |-> size * 2 > olen
                    \/ ~RowsInside(base, ostride, iwidth * 2, iheight, olen,
                                   istride, Len(input.b))]

\* mlt_resize_yuv422: writes into output the input centred on black
\* (16, 128); returns with nothing written for a NULL and for the sizes of
\* line 932
mlt_resize_yuv422(output, owidth, oheight, input, iwidth, iheight) ==
  IF output.null \/ input.null
       \/ (owidth <= 6 \/ oheight <= 6 \/ iwidth <= 6 \/ oheight <= 6)
  THEN [output |-> output, fault |-> FALSE]
  ELSE mlt_resize_yuv422_any_size(output, owidth, oheight, input, iwidth,
                                  iheight)

\* mlt_resize_alpha: a new alpha channel of the output's size with the input
\* centred on alpha_value, or NULL
mlt_resize_alpha(input, owidth, oheight, iwidth, iheight, alpha_value, env) ==
  IF ~input.null /\ (iwidth # owidth \/ iheight # oheight)
       /\ (owidth > 6 /\ oheight > 6)
  THEN LET offset_y == CDiv(oheight - iheight, 2)
           offset_x == CDiv(owidth - iwidth, 2)
                         - CRem(CDiv(owidth - iwidth, 2), 2)
           base == offset_y * owidth + offset_x
           output == mlt_pool_alloc(owidth * oheight, env)
           olen == Len(output.b)
       IN IF output.null THEN [output |-> output, fault |-> TRUE]
          ELSE [output |-> Buf([k \in 1..olen |->
                                  LET y == RowOver(k - 1, base, owidth, iwidth,
                                                   iheight)
                                      from == y * iwidth
                                                + (k - 1 - base - y * owidth)
                                  IN IF y >= 0 /\ from < Len(input.b)
                                     THEN input.b[from + 1]
                                     ELSE alpha_value]),
                fault |-> ~RowsInside(base, owidth, iwidth, iheight, olen,
                                      iwidth, Len(input.b))]
  ELSE [output |-> NullBuf, fault |-> FALSE]

\* the alpha channel that a get_alpha_mask callback returns: one byte per
\* pixel of the frame
AlphaOfCallback(m) == Buf([k \in 1..(m.width * m.height) |-> 200])

\* mlt_frame_get_alpha_mask: the callback's alpha, else the stored one, else
\* a new opaque one of scaled_width * scaled_height bytes, which is stored
mlt_frame_get_alpha_mask(m, env) ==
  LET a1 == IF m.get_alpha_mask # NULL THEN AlphaOfCallback(m) ELSE NullBuf
      a2 == IF a1.null THEN m.alpha ELSE a1
  IN IF ~a2.null THEN [m |-> m, alpha |-> a2]
     ELSE LET size == m.scaled_width * m.scaled_height
              got == mlt_pool_alloc(size, env)
              a3 == IF got.null THEN got ELSE Buf([k \in 1..size |-> 255])
          IN [m |-> [m EXCEPT !.alpha = a3,
                              !.fault = @ \/ got.null],
              alpha |-> a3]

\* mlt_frame_resize_yuv422: the frame and the image returned. With the
\* frame's width and height already owidth and oheight the image of the
\* frame is returned; else a new image of owidth * (oheight + 1) * 2 bytes
\* is given to mlt_resize_yuv422 and becomes the image of the frame, width
\* and height become owidth and oheight, and the alpha channel is resized
mlt_frame_resize_yuv422(m, owidth, oheight, env) ==
  LET input == m.image
      g == mlt_frame_get_alpha_mask(m, env)
      m1 == g.m
      iwidth == m.width
      iheight == m.height
  IN
  IF iwidth # owidth \/ iheight # oheight
  THEN LET alpha_value == m1.resize_alpha % 256
           output == mlt_pool_alloc(owidth * (oheight + 1) * 2, env)
           r == mlt_resize_yuv422(output, owidth, oheight, input, iwidth,
                                  iheight)
           al == mlt_resize_alpha(g.alpha, owidth, oheight, iwidth, iheight,
                                  alpha_value, env)
           m2 == [m1 EXCEPT !.image = r.output,
                            !.width = owidth, !.height = oheight,
                            !.fault = @ \/ r.fault \/ al.fault]
       IN [m |-> IF al.output.null THEN m2
                 ELSE [m2 EXCEPT !.alpha = al.output,
                                 !.get_alpha_mask = NULL],
           ret |-> r.output]
  ELSE [m |-> m1, ret |-> input]

\* ------------------------------------------------------------------ state
\* cache    the cache (struct mlt_cache_s and the destructor runs)
\* handles  the cache items the callers hold from mlt_cache_get: key is the
\*          owner whose item of the active list the handle points at, got
\*          the data that item held when the handle was returned
\* nextHot, nextData, nextFill
\*          how many of the hot owners, of their data pointers and of the
\*          fill owners have been passed to mlt_cache_put so far
\* closed   mlt_cache_close has run
\* recency  the owners in the order of their last put or get, oldest first
\* ops      the operations run so far where a specification bounds them
\* pc, loc  where each thread of the threaded specification stands in its
\*          call, and the local variables of that call
\* reused   some put passed a data pointer that an earlier put had passed
\* hist     the calls the threads have started, in the order of their start
\* displaced
\*          the data pointers whose owner a put has evicted while a handle
\*          on them was held
\* frame    the frame (its stacks, properties and the log of the callbacks)
\* pure     the arguments a function of the frame's helpers is called with
\*          and what the calls have returned so far
\* last     the latest call made on the frame, with its parameters and
\*          what it returned
\* nextStep how many callbacks and filters have been pushed on the frame
\* fops     the calls made on the frame so far
VARIABLES cache, handles, nextHot, nextData, nextFill, closed, recency, ops,
          pc, loc, reused, hist, displaced, frame, last, nextStep, fops,
          pure

CacheVars == <<cache, handles, nextHot, nextData, nextFill, closed, recency,
               ops, pc, loc, reused, hist, displaced>>

FrameVars == <<frame, last, nextStep, fops>>

vars == <<CacheVars, FrameVars, pure>>

Threads == 1..NThreads

NoLocals ==
  [object |-> NULL, data |-> NULL, alt |-> "A", hitArr |-> "A", hitIdx |-> 0,
   where |-> "", victim |-> NULL, i |-> 0, j |-> 0]

NoHandle == [key |-> NULL, got |-> NULL]

HandleSlots == 1..MaxHandles

FreeSlots == {h \in HandleSlots : handles[h].key = NULL}

\* the entries current[ 0 .. count - 1 ], least recently used first
Ordering(s) ==
  [i \in 1..(IF s.count > 0 THEN s.count ELSE 0) |->
     ArrayGet(s, s.current, i - 1)]

InOrdering(s, o) == \E i \in 1..Len(Ordering(s)) : Ordering(s)[i] = o

\* seq without the elements equal to o
RECURSIVE Without(_, _)
Without(seq, o) ==
  IF seq = <<>> THEN <<>>
  ELSE IF Head(seq) = o THEN Without(Tail(seq), o)
  ELSE <<Head(seq)>> \o Without(Tail(seq), o)

Touch(seq, o) == Without(seq, o) \o <<o>>

\* no call has been made on the frame
NoCall ==
  [op |-> "", a |-> Params(NULL, "none", 0, 0, 0),
   r |-> Returned(NULL, NULL, "none", 0, 0, 0), popped |-> 0]

\* no function is under study
NoInput == [fn |-> ""]

\* the cache and the frame after their construction
InitObjects ==
  /\ cache = mlt_cache_init
  /\ handles = [h \in HandleSlots |-> NoHandle]
  /\ nextHot = 0
  /\ nextData = 0
  /\ nextFill = 0
  /\ closed = FALSE
  /\ recency = <<>>
  /\ ops = 0
  /\ pc = [t \in Threads |-> "idle"]
  /\ loc = [t \in Threads |-> NoLocals]
  /\ reused = FALSE
  /\ hist = <<>>
  /\ displaced = {}
  /\ frame = mlt_frame_init
  /\ last = NoCall
  /\ nextStep = 0
  /\ fops = 0

Init == InitObjects /\ pure = NoInput

\* ------------------------------------------------- one caller, in sequence
\* mlt_cache_put( cache, o, d, SizeOf(d), destructor )
Put(o, d) ==
  /\ ~closed
  /\ cache' = mlt_cache_put(cache, 1, o, d, SizeOf(d), TRUE)
  /\ recency' = Touch(recency, o)
  /\ displaced' =
       IF cache.count = CACHE_SIZE /\ ~InOrdering(cache, o)
       THEN LET it == cache.active[ArrayGet(cache, cache.current, 0)] IN
            IF \E h \in HandleSlots :
                 /\ handles[h].key = it.object /\ it.data # NULL
                 /\ handles[h].got = it.data
            THEN displaced \cup {it.data}
            ELSE displaced
       ELSE displaced
  /\ UNCHANGED <<handles, closed>>

\* a hot owner puts a data pointer: owners and data pointers are addresses,
\* so a new one is always the next one
PutHot(o, d) ==
  /\ o \in Hot /\ o <= nextHot + 1
  /\ d \in HotData /\ d <= nextData + 1
  /\ Put(o, d)
  /\ nextHot' = IF o > nextHot THEN o ELSE nextHot
  /\ nextData' = IF d > nextData THEN d ELSE nextData
  /\ reused' = (reused \/ d <= nextData)
  /\ UNCHANGED nextFill

\* the next fill owner puts its data
PutFill ==
  /\ nextFill < NFill
  /\ Put(NHot + nextFill + 1, FillData(NHot + nextFill + 1))
  /\ nextFill' = nextFill + 1
  /\ UNCHANGED <<nextHot, nextData, reused>>

\* item = mlt_cache_get( cache, o ); a returned item is held as a handle
Get(o) ==
  /\ ~closed
  /\ o \in Hot /\ o <= nextHot
  /\ LET r == mlt_cache_get(cache, 1, o) IN
     /\ cache' = r.st
     /\ IF r.result # NULL
        THEN /\ FreeSlots # {}
             /\ LET h == CHOOSE x \in FreeSlots : \A y \in FreeSlots : x <= y IN
                handles' = [handles EXCEPT ![h] =
                  [key |-> r.result, got |-> mlt_cache_item_data(r.st, r.result).data]]
        ELSE UNCHANGED handles
  /\ recency' = Touch(recency, o)
  /\ UNCHANGED <<nextHot, nextData, nextFill, closed, reused, displaced>>

\* mlt_cache_item_close( item ) on a handle that is held
ItemClose(h) ==
  /\ ~closed
  /\ handles[h].key # NULL
  /\ cache' = mlt_cache_item_close(cache, 1, handles[h].key)
  /\ handles' = [handles EXCEPT ![h] = NoHandle]
  /\ UNCHANGED <<nextHot, nextData, nextFill, closed, recency, reused, displaced>>

\* mlt_cache_purge( cache, o ); the handles on an item that purge released
\* point at freed memory and are given up
Purge(o) ==
  /\ ~closed
  /\ o \in Hot /\ o <= nextHot
  /\ cache' = mlt_cache_purge(cache, 1, o)
  /\ handles' = [h \in HandleSlots |->
       IF handles[h].key = o /\ ~cache'.active[o].valid
       THEN NoHandle ELSE handles[h]]
  /\ recency' = Without(recency, o)
  /\ UNCHANGED <<nextHot, nextData, nextFill, closed, reused, displaced>>

\* mlt_cache_close( cache ): every item is released with the lists
Destroy ==
  /\ ~closed
  /\ cache' = mlt_cache_close(cache, 1)
  /\ closed' = TRUE
  /\ handles' = [h \in HandleSlots |-> NoHandle]
  /\ UNCHANGED <<nextHot, nextData, nextFill, recency, reused, displaced>>

\* put, get and item_close on the hot owners
RefOp ==
  \/ \E o \in Hot, d \in HotData : PutHot(o, d)
  \/ \E o \in Hot : Get(o)
  \/ \E h \in HandleSlots : ItemClose(h)

\* all operations on the hot owners
HotOp ==
  \/ RefOp
  \/ \E o \in Hot : Purge(o)
  \/ Destroy

\* one caller that puts, gets and closes items, and neither purges nor
\* closes the cache
NextRef ==
  /\ RefOp /\ ops < MaxOps /\ ops' = ops + 1
  /\ UNCHANGED <<pc, loc, hist>> /\ UNCHANGED <<FrameVars, pure>>

SpecRef == Init /\ [][NextRef]_vars

\* one caller working on the hot owners
Next ==
  /\ HotOp /\ ops < MaxOps /\ ops' = ops + 1
  /\ UNCHANGED <<pc, loc, hist>> /\ UNCHANGED <<FrameVars, pure>>

Spec == Init /\ [][Next]_vars

\* one caller that puts, gets and closes items and at last closes the
\* cache, without a purge
NextLeak ==
  /\ (RefOp \/ Destroy) /\ ops < MaxOps /\ ops' = ops + 1
  /\ UNCHANGED <<pc, loc, hist>> /\ UNCHANGED <<FrameVars, pure>>

SpecLeak == Init /\ [][NextLeak]_vars

\* one caller filling the cache with the fill owners in between
NextLRU ==
  \/ /\ HotOp /\ ops < MaxLruOps /\ ops' = ops + 1
     /\ UNCHANGED <<pc, loc, hist>> /\ UNCHANGED <<FrameVars, pure>>
  \/ PutFill /\ UNCHANGED <<ops, pc, loc, hist>> /\ UNCHANGED <<FrameVars, pure>>

SpecLRU == Init /\ [][NextLRU]_vars

\* one caller that puts, gets and closes items of the hot owners and, once,
\* puts all the fill owners one after the other
NextEvict ==
  \/ /\ RefOp /\ ops < MaxEvictOps /\ ops' = ops + 1
     /\ nextFill \in {0, NFill}
     /\ UNCHANGED <<pc, loc, hist>> /\ UNCHANGED <<FrameVars, pure>>
  \/ /\ PutFill /\ nextHot >= 1
     /\ UNCHANGED <<ops, pc, loc, hist>> /\ UNCHANGED <<FrameVars, pure>>

SpecEvict == Init /\ [][NextEvict]_vars

\* ------------------------------------------------------- several threads
\* A thread runs one call at a time. The part of a call between a lock and
\* the next unlock of the mutex is one step; a read made while the mutex is
\* released is a step of its own.
Idle(t) == pc[t] = "idle" /\ ~closed /\ ~cache.fault
At(t, where) == pc[t] = where /\ ~cache.fault

Goto(t, where, locals) ==
  /\ pc' = [pc EXCEPT ![t] = where]
  /\ loc' = [loc EXCEPT ![t] = locals]

EnvSame ==
  UNCHANGED <<nextFill, closed, recency, displaced>> /\ UNCHANGED <<FrameVars, pure>>
SameData == UNCHANGED <<nextHot, nextData, reused>>

StartOp(t, name, o) ==
  /\ ops < MaxThreadOps
  /\ ops' = ops + 1
  /\ hist' = Append(hist, [thread |-> t, op |-> name, object |-> o])

\* mlt_cache_put up to its first unlock, or to its end when there is room
TPutBegin(t, o, d) ==
  /\ Idle(t) /\ StartOp(t, "put", o)
  /\ o \in Hot /\ o <= nextHot + 1
  /\ d \in HotData /\ d <= nextData + 1
  /\ nextHot' = IF o > nextHot THEN o ELSE nextHot
  /\ nextData' = IF d > nextData THEN d ELSE nextData
  /\ reused' = (reused \/ d <= nextData)
  /\ LET b == put_begin(cache, t, o) IN
     IF b.where = "room"
     THEN /\ cache' = put_end(b.st, b.alt, b.hitIdx, o, d, SizeOf(d), TRUE)
          /\ Goto(t, "idle", NoLocals)
     ELSE /\ cache' = b.st
          /\ Goto(t, "put_read",
                  [NoLocals EXCEPT !.object = o, !.data = d, !.alt = b.alt,
                     !.hitArr = b.hitArr, !.hitIdx = b.hitIdx,
                     !.where = b.where])
  /\ UNCHANGED handles /\ EnvSame

\* the argument of cache_object_close is read with the mutex released:
\* *hit at line 353, cache->current[0] at line 367
TPutRead(t) ==
  /\ At(t, "put_read")
  /\ Goto(t, "put_close",
          [loc[t] EXCEPT !.victim =
             IF loc[t].where = "hit"
             THEN ArrayGet(cache, loc[t].hitArr, loc[t].hitIdx)
             ELSE ArrayGet(cache, cache.current, 0)])
  /\ UNCHANGED <<cache, handles, ops, hist>> /\ SameData /\ EnvSame

\* cache_object_close( cache, victim, NULL ) of lines 353 and 367
TPutClose(t) ==
  /\ At(t, "put_close")
  /\ cache' = cache_object_close(cache, t, loc[t].victim, NULL)
  /\ Goto(t, "put_relock", loc[t])
  /\ UNCHANGED <<handles, ops, hist>> /\ SameData /\ EnvSame

\* mlt_cache_put from the second lock to its end
TPutEnd(t) ==
  /\ At(t, "put_relock")
  /\ cache' = put_relock(cache, t, loc[t].alt, loc[t].object, loc[t].data,
                         SizeOf(loc[t].data), TRUE)
  /\ Goto(t, "idle", NoLocals)
  /\ UNCHANGED <<handles, ops, hist>> /\ SameData /\ EnvSame

\* mlt_cache_get, all of it under the mutex
TGet(t, o) ==
  /\ Idle(t) /\ StartOp(t, "get", o)
  /\ o \in Hot /\ o <= nextHot
  /\ LET r == mlt_cache_get(cache, t, o) IN
     /\ cache' = r.st
     /\ IF r.result # NULL
        THEN /\ FreeSlots # {}
             /\ LET h == CHOOSE x \in FreeSlots : \A y \in FreeSlots : x <= y IN
                handles' = [handles EXCEPT ![h] =
                  [key |-> r.result, got |-> mlt_cache_item_data(r.st, r.result).data]]
        ELSE UNCHANGED handles
  /\ UNCHANGED <<pc, loc>> /\ SameData /\ EnvSame

\* mlt_cache_item_close reads item->object and item->data, line 173
TCloseRead(t, h) ==
  /\ Idle(t) /\ StartOp(t, "close", handles[h].key)
  /\ handles[h].key # NULL
  /\ LET item == mlt_properties_get_data(cache.active, handles[h].key) IN
     Goto(t, "close_call",
          [NoLocals EXCEPT !.object = item.object, !.data = item.data])
  /\ handles' = [handles EXCEPT ![h] = NoHandle]
  /\ UNCHANGED cache /\ SameData /\ EnvSame

\* cache_object_close( item->cache, item->object, item->data )
TCloseCall(t) ==
  /\ At(t, "close_call")
  /\ cache' = cache_object_close(cache, t, loc[t].object, loc[t].data)
  /\ Goto(t, "idle", NoLocals)
  /\ UNCHANGED <<handles, ops, hist>> /\ SameData /\ EnvSame

\* the handles on an item of owner o that has been released are given up
DropHandles(o) ==
  handles' = [h \in HandleSlots |->
    IF handles[h].key = o /\ ~cache'.active[o].valid
    THEN NoHandle ELSE handles[h]]

\* the loop of mlt_cache_purge from index i on, up to its next unlock or to
\* the end of the call
PurgeStep(t, s, o, alt, i, j) ==
  LET r == purge_scan(s, o, alt, i, j) IN
  IF r.where = "tail"
  THEN /\ cache' = purge_tail(r.st, o, alt, r.j)
       /\ Goto(t, "idle", NoLocals)
  ELSE /\ cache' = r.st
       /\ Goto(t, "purge_close",
               [NoLocals EXCEPT !.object = o, !.alt = alt, !.i = r.i, !.j = r.j])

TPurgeBegin(t, o) ==
  /\ Idle(t) /\ StartOp(t, "purge", o)
  /\ o \in Hot /\ o <= nextHot
  /\ PurgeStep(t, MutexLock(cache, t), o, AltOf(cache), 0, 0)
  /\ DropHandles(o)
  /\ SameData /\ EnvSame

\* cache_object_close( cache, o, NULL ) of line 240
TPurgeClose(t) ==
  /\ At(t, "purge_close")
  /\ cache' = cache_object_close(cache, t, loc[t].object, NULL)
  /\ Goto(t, "purge_relock", loc[t])
  /\ UNCHANGED <<handles, ops, hist>> /\ SameData /\ EnvSame

\* line 241: lock again and go on with the loop
TPurgeResume(t) ==
  /\ At(t, "purge_relock")
  /\ PurgeStep(t, MutexLock(cache, t), loc[t].object, loc[t].alt,
               loc[t].i + 1, loc[t].j)
  /\ DropHandles(loc[t].object)
  /\ UNCHANGED <<ops, hist>> /\ SameData /\ EnvSame

NextThreads ==
  \E t \in Threads :
    \/ \E o \in Hot, d \in HotData : TPutBegin(t, o, d)
    \/ TPutRead(t)
    \/ TPutClose(t)
    \/ TPutEnd(t)
    \/ \E o \in Hot : TGet(t, o)
    \/ \E h \in HandleSlots : TCloseRead(t, h)
    \/ TCloseCall(t)
    \/ \E o \in Hot : TPurgeBegin(t, o)
    \/ TPurgeClose(t)
    \/ TPurgeResume(t)

SpecThreads == Init /\ [][NextThreads]_vars

\* ------------------------------------------------- the calls on one frame
\* what the caller of mlt_frame_get_image asks for
Requests == {Params(NULL, "none", 0, 0, 0), Params(NULL, "yuv422", 4, 2, 1)}

\* what the collaborators do in a call: the test card producer gives a
\* frame or none, the pool a buffer or none
Envs == [card : BOOLEAN, alloc : BOOLEAN]

\* the callbacks a collaborator pushes by itself
StepTypes == {"producer", "plain", "fail", "pusher", "pusher_only"}

\* the top of the image stack is a get_image callback, as the caller of
\* mlt_frame_get_image expects, or the stack is empty
TopIsCallback ==
  IF frame.stack_image = <<>> THEN TRUE
  ELSE frame.stack_image[Len(frame.stack_image)].kind = "get_image"

Called(op, a, r, popped) ==
  [op |-> op, a |-> a, r |-> [r EXCEPT !.f = NULL], popped |-> popped]

\* mlt_frame_push_get_image( frame, get_image ) by a collaborator
PushGetImage(type) ==
  /\ nextStep < NSteps
  /\ frame' = mlt_frame_push_get_image(frame,
                Entry("get_image", type, nextStep + 1, 0))
  /\ nextStep' = nextStep + 1
  /\ last' = Called("push", NoCall.a, NoCall.r, 0)

\* the resize filter processes the frame
FilterProcess ==
  /\ nextStep < NSteps
  /\ frame' = filter_process(frame, nextStep + 1)
  /\ nextStep' = nextStep + 1
  /\ last' = Called("push", NoCall.a, NoCall.r, 0)

\* mlt_frame_push_service_int( frame, v ), once while an int is stacked
PushServiceInt(v) ==
  /\ \A i \in 1..Len(frame.stack_image) : frame.stack_image[i].kind # "int"
  /\ frame' = mlt_frame_push_service_int(frame, v)
  /\ last' = Called("push", NoCall.a, NoCall.r, 0)
  /\ UNCHANGED nextStep

\* mlt_frame_set_aspect_ratio( frame, v )
SetAspectRatio(v) ==
  /\ frame.aspect_ratio # v
  /\ frame' = mlt_frame_set_aspect_ratio(frame, v)
  /\ last' = Called("set", NoCall.a, NoCall.r, 0)
  /\ UNCHANGED nextStep

\* a collaborator sets the property test_card_producer, test_image or
\* test_audio of the frame
SetProperty(name) ==
  /\ \/ /\ name = "test_card_producer" /\ frame.test_card_producer = NULL
        /\ frame' = [frame EXCEPT !.test_card_producer = 1]
     \/ /\ name = "test_image" /\ frame.test_image = 0
        /\ frame' = [frame EXCEPT !.test_image = 1]
     \/ /\ name = "test_audio" /\ frame.test_audio = 0
        /\ frame' = [frame EXCEPT !.test_audio = 1]
  /\ last' = Called("set", NoCall.a, NoCall.r, 0)
  /\ UNCHANGED nextStep

\* error = mlt_frame_get_image( frame, &buffer, &format, &width, &height,
\* writable ) by the consumer
GetImage(a, env) ==
  /\ TopIsCallback /\ ~frame.fault
  /\ LET r == mlt_frame_get_image(frame, a, env) IN
     /\ frame' = r.f
     /\ last' = Called("get_image", a, r,
                       Len(frame.stack_image) - Len(r.f.stack_image))
  /\ UNCHANGED nextStep

\* mlt_frame_replace_image( frame, image, format, width, height )
ReplaceImage(a) ==
  /\ ~frame.fault
  /\ frame' = mlt_frame_replace_image(frame, ReplacedImage, a.format,
                                      a.width, a.height)
  /\ last' = Called("replace_image",
                    Params(ReplacedImage, a.format, a.width, a.height, 0),
                    NoCall.r, Len(frame.stack_image) - Len(frame'.stack_image))
  /\ UNCHANGED nextStep

\* mlt_frame_push_audio( frame, get_audio ) by a collaborator
PushAudio ==
  /\ frame.stack_audio = <<>> /\ frame.audio = NULL
  /\ frame' = mlt_frame_push_audio(frame,
                Entry("get_audio", "producer", AudioBuffer, 0))
  /\ last' = Called("push", NoCall.a, NoCall.r, 0)
  /\ UNCHANGED nextStep

\* mlt_frame_get_audio( frame, &buffer, ... ) by the consumer
GetAudio(a, env) ==
  /\ ~frame.fault
  /\ LET r == mlt_frame_get_audio(frame, a, env) IN
     /\ frame' = r.f
     /\ last' = Called("get_audio", a, r,
                       Len(frame.stack_audio) - Len(r.f.stack_audio))
  /\ UNCHANGED nextStep

FrameOp ==
  \/ \E type \in StepTypes : PushGetImage(type)
  \/ FilterProcess
  \/ \E v \in {0, 1} : PushServiceInt(v)
  \/ \E v \in {0, 1} : SetAspectRatio(v)
  \/ \E name \in {"test_card_producer", "test_image", "test_audio"} :
       SetProperty(name)
  \/ \E a \in Requests, env \in Envs : GetImage(a, env)
  \/ \E a \in Requests : ReplaceImage(a)
  \/ PushAudio
  \/ \E env \in Envs : GetAudio(AudioParams(0, 0, 0), env)

\* the collaborators and the consumer of one frame, one call after the other
NextFrame ==
  /\ FrameOp /\ fops < MaxFrameOps /\ fops' = fops + 1
  /\ UNCHANGED <<CacheVars, pure>>

SpecFrame == Init /\ [][NextFrame]_vars

\* ------------------------------------------ the holders of one frame
\* the frames pushed as sub-frames and the services of the service stack
SubFrames == 1..NSubFrames
Services == 1..NServices

\* mlt_frame_push_frame( frame, that ) by a collaborator that hands its
\* reference of that over to the stack
PushFrame(that) ==
  /\ ~frame.freed
  /\ \A i \in 1..Len(frame.stack_image) :
       ~(frame.stack_image[i].kind = "frame" /\ frame.stack_image[i].id = that)
  /\ frame' = mlt_frame_push_frame(frame, that)
  /\ last' = Called("push", NoCall.a, NoCall.r, 0)
  /\ UNCHANGED nextStep

\* that = mlt_frame_pop_frame( frame ) by the collaborator that expects a
\* frame on top, which has the reference from then on
PopFrame ==
  /\ ~frame.freed
  /\ frame.stack_image # <<>>
  /\ frame.stack_image[Len(frame.stack_image)].kind = "frame"
  /\ frame' = mlt_frame_pop_frame(frame).f
  /\ last' = Called("pop_frame", NoCall.a, NoCall.r, 1)
  /\ UNCHANGED nextStep

\* mlt_deque_push_back( mlt_frame_service_stack( frame ), service )
PushService(service) ==
  /\ ~frame.freed
  /\ \A i \in 1..Len(frame.stack_service) : frame.stack_service[i].id # service
  /\ frame' = [frame EXCEPT !.stack_service =
                 mlt_deque_push_back(mlt_frame_service_stack(frame),
                                     Entry("service", "", service, 0))]
  /\ last' = Called("push", NoCall.a, NoCall.r, 0)
  /\ UNCHANGED nextStep

\* mlt_properties_inc_ref on the frame by one more holder
IncRef ==
  /\ ~frame.freed /\ frame.ref_count < MaxRefs
  /\ frame' = [frame EXCEPT !.ref_count = @ + 1]
  /\ last' = Called("inc_ref", NoCall.a, NoCall.r, 0)
  /\ UNCHANGED nextStep

\* mlt_frame_close( frame ) by a holder
Close ==
  /\ ~frame.freed
  /\ frame' = mlt_frame_close(frame)
  /\ last' = Called("close", NoCall.a, NoCall.r, 0)
  /\ UNCHANGED nextStep

CloseOp ==
  \/ \E that \in SubFrames : PushFrame(that)
  \/ PopFrame
  \/ \E service \in Services : PushService(service)
  \/ /\ ~frame.freed /\ PushGetImage("producer")
  \/ IncRef
  \/ Close

\* the holders of one frame, one call after the other
NextClose ==
  /\ CloseOp /\ fops < MaxCloseOps /\ fops' = fops + 1
  /\ UNCHANGED <<CacheVars, pure>>

SpecClose == Init /\ [][NextClose]_vars

\* ---------------------------------------- the calls on one frame's audio
\* what the caller of mlt_frame_get_audio asks for
AudioRequests ==
  {AudioParams(0, 0, 0), AudioParams(-1, -1, -1), AudioParams(44100, 1, 2)}

\* the get_audio callbacks a collaborator pushes, and the buffer of each
AudioStepTypes == {"producer", "plain", "nested"}

AudioStepBuffer(type) ==
  IF type = "producer" THEN AudioBuffer
  ELSE IF type = "plain" THEN PlainAudioBuffer
  ELSE IF type = "wide" THEN WideAudioBuffer
  ELSE IF type = "long" THEN LongAudioBuffer ELSE NULL

\* mlt_frame_push_audio( frame, get_audio ) by a collaborator, each
\* callback once at a time
PushAudioStep(type) ==
  /\ \A i \in 1..Len(frame.stack_audio) : frame.stack_audio[i].type # type
  /\ frame' = mlt_frame_push_audio(frame,
                Entry("get_audio", type, AudioStepBuffer(type), 0))
  /\ last' = Called("push", NoCall.a, NoCall.r, 0)
  /\ UNCHANGED nextStep

\* mlt_properties_set( properties, "meta.volume", str ) by a collaborator
SetVolume(str) ==
  /\ frame.meta_volume # str
  /\ frame' = [frame EXCEPT !.meta_volume = str]
  /\ last' = Called("set_volume", NoCall.a, NoCall.r, 0)
  /\ UNCHANGED nextStep

\* mlt_properties_set_int( properties, "test_audio", v ) by a collaborator
SetTestAudio(v) ==
  /\ frame.test_audio # v
  /\ frame' = [frame EXCEPT !.test_audio = v]
  /\ last' = Called("set", NoCall.a, NoCall.r, 0)
  /\ UNCHANGED nextStep

AudioOp ==
  \/ \E type \in AudioStepTypes : PushAudioStep(type)
  \/ \E str \in {"0.0", "0.5", "1.0"} : SetVolume(str)
  \/ \E v \in {0, 1} : SetTestAudio(v)
  \/ \E a \in AudioRequests, env \in Envs : GetAudio(a, env)

\* the collaborators and the consumer of one frame's audio, one call after
\* the other
NextAudio ==
  /\ AudioOp /\ fops < MaxAudioOps /\ fops' = fops + 1
  /\ UNCHANGED <<CacheVars, pure>>

SpecAudio == Init /\ [][NextAudio]_vars

\* ------------------------------------- the position of one frame
\* the positions a collaborator gives the frame
Positions == {-1, 0, 3}

\* mlt_frame_set_position( frame, v ) by a collaborator
SetPosition(v) ==
  /\ frame.position # v
  /\ frame' = mlt_frame_set_position(frame, v)
  /\ last' = Called("set", NoCall.a, NoCall.r, 0)
  /\ UNCHANGED nextStep

PositionOp ==
  \/ \E v \in Positions : SetPosition(v)
  \/ \E type \in StepTypes : PushGetImage(type)
  \/ FilterProcess
  \/ \E a \in Requests, env \in Envs : GetImage(a, env)
  \/ \E type \in AudioStepTypes : PushAudioStep(type)
  \/ \E env \in Envs : GetAudio(AudioParams(0, 0, 0), env)

\* the collaborators and the consumer of one frame that has a position, one
\* call after the other
NextPosition ==
  /\ PositionOp /\ fops < MaxPositionOps /\ fops' = fops + 1
  /\ UNCHANGED <<CacheVars, pure>>

SpecPosition == Init /\ [][NextPosition]_vars

\* ------------------------------------------------- the resize of one frame
\* a yuv422 image of width * height pixels, two bytes each
InputImage(width, height) ==
  Buf([k \in 1..(width * height * 2) |-> 20 + (k % 100)])

\* an alpha channel stored on the frame, one byte per pixel
StoredAlpha(width, height) == Buf([k \in 1..(width * height) |-> 100])

\* the properties of a frame that mlt_frame_resize_yuv422 reads and writes
ResizeFrame(width, height, image, alpha, scaled, callback) ==
  [image |-> IF image THEN InputImage(width, height) ELSE NullBuf,
   width |-> width, height |-> height,
   scaled_width |-> IF scaled THEN width ELSE 0,
   scaled_height |-> IF scaled THEN height ELSE 0,
   alpha |-> IF alpha THEN StoredAlpha(width, height) ELSE NullBuf,
   get_alpha_mask |-> IF callback THEN 1 ELSE NULL,
   resize_alpha |-> 0,
   fault |-> FALSE]

InitResize ==
  /\ InitObjects
  /\ \E width \in Widths, height \in Heights,
        image \in BOOLEAN, alpha \in {"none", "stored", "callback"},
        scaled \in BOOLEAN :
       LET m == ResizeFrame(width, height, image, alpha = "stored", scaled,
                            alpha = "callback")
       IN pure = [fn |-> "resize", calls |-> 0, m |-> m, before |-> m,
                  owidth |-> 0, oheight |-> 0, ret |-> NullBuf]

\* one call of mlt_frame_resize_yuv422 on the frame
Resize(owidth, oheight, env) ==
  /\ pure.fn = "resize"
  /\ pure.calls < MaxResizeCalls
  /\ ~pure.m.fault
  /\ LET r == mlt_frame_resize_yuv422(pure.m, owidth, oheight, env) IN
     pure' = [pure EXCEPT !.calls = @ + 1, !.before = pure.m, !.m = r.m,
                          !.owidth = owidth, !.oheight = oheight,
                          !.ret = r.ret]
  /\ UNCHANGED <<CacheVars, FrameVars>>

NextResize ==
  \E owidth \in Widths, oheight \in Heights, alloc \in BOOLEAN, junk \in Junk :
    Resize(owidth, oheight, [alloc |-> alloc, junk |-> junk])

SpecResize == InitResize /\ [][NextResize]_vars

\* -------------------------------------------- the samples of a run of frames
\* a consumer counts the samples of the frames from the position start on:
\* position is the next frame, total the samples of the frames so far
SampleRuns ==
  [fn : {"samples"}, fps : {Ntsc}, frequency : {44100},
   start : 0..MaxStart, position : {0}, total : {0}]
  \cup [fn : {"samples"}, fps : {Ntsc} \cup IntegerRates,
        frequency : {48000, 44100, 32000},
        start : {0}, position : {0}, total : {0}]

InitSamples ==
  /\ InitObjects
  /\ \E run \in SampleRuns : pure = [run EXCEPT !.position = run.start]

\* samples = mlt_sample_calculator( fps, frequency, position ) for the next
\* frame
CountFrame ==
  /\ pure.position - pure.start < MaxFramesCounted
  /\ pure' = [pure EXCEPT
                !.total = @ + mlt_sample_calculator(pure.fps, pure.frequency,
                                                    pure.position),
                !.position = @ + 1]
  /\ UNCHANGED <<CacheVars, FrameVars>>

NextSamples == CountFrame

SpecSamples == InitSamples /\ [][NextSamples]_vars

\* ------------------------------------------------- the mix of two frames
\* a new frame with silent_audio as given and, but for the type none, a
\* get_audio callback of that type pushed
FrameWithAudio(type, silent) ==
  LET f == [mlt_frame_init EXCEPT !.silent_audio = silent]
  IN IF type = "none" THEN f
     ELSE mlt_frame_push_audio(f, Entry("get_audio", type,
                                        AudioStepBuffer(type), 0))

MixStepTypes == {"none", "producer", "plain", "wide", "long"}

\* the weights 0.0, 0.5 and 1.0 in eighths
MixWeights == {<<0, 0>>, <<8, 8>>, <<4, 4>>, <<0, 8>>}

MixRequests == {AudioParams(48000, 1, 2), AudioParams(48000, 2, 2)}

\* two frames of a transition before their audio is mixed
InitMix ==
  /\ InitObjects
  /\ \E t1 \in MixStepTypes, t2 \in MixStepTypes, s1 \in {0, 1}, s2 \in {0, 1} :
       pure = [fn |-> "mix",
               fs |-> <<FrameWithAudio(t1, s1), FrameWithAudio(t2, s2)>>,
               calls |-> 0, this |-> 0, that |-> 0, weights |-> <<0, 0>>,
               a |-> AudioParams(0, 0, 0), alloc |-> TRUE, g |-> NULL,
               r |-> WithGot(MixReturned(NULL, Pointer(0, NULL), 0, 0, 0, 0),
                             NULL)]

\* the record of a call: its arguments, what it returned (r) and what its
\* lines 1117-1118 had got (g)
MixRecorded(p, this, that, w, a, env, r) ==
  [p EXCEPT !.fs = r.fs, !.calls = @ + 1, !.this = this, !.that = that,
            !.weights = w, !.a = a, !.alloc = env.alloc, !.g = r.got,
            !.r = [r EXCEPT !.fs = NULL, !.got = NULL]]

\* mlt_frame_mix_audio( this, that, weight_start, weight_end, &buffer,
\* &format, &frequency, &channels, &samples ) by a transition
MixAudio(this, that, w, a, env) ==
  /\ pure.calls < MaxMixCalls
  /\ ~pure.fs[1].fault /\ ~pure.fs[2].fault
  /\ pure' = MixRecorded(pure, this, that, w, a, env,
                         mlt_frame_mix_audio(pure.fs, this, that, w[1], w[2],
                                             a, env))
  /\ UNCHANGED <<CacheVars, FrameVars>>

NextMix ==
  \E this \in {1, 2}, that \in {1, 2}, w \in MixWeights, a \in MixRequests,
     alloc \in BOOLEAN :
    MixAudio(this, that, w, a, [card |-> FALSE, alloc |-> alloc])

SpecMix == InitMix /\ [][NextMix]_vars

\* ================================================================ claims
\* the cache after put(1, A), after the get(1) that follows and after the
\* put(1, B) that follows it, with A = 1 and B = 2
AfterPutA == mlt_cache_put(mlt_cache_init, 1, 1, 1, SizeOf(1), TRUE)
AfterGetA == mlt_cache_get(AfterPutA, 1, 1).st
AfterPutB == mlt_cache_put(AfterGetA, 1, 1, 2, SizeOf(2), TRUE)

\* C1: orphan safety. After put(owner, A), get(owner), put(owner, B) the
\* data A has not been destroyed by the second put, and the item_close of
\* the handle that get returned runs the destructor of A.
C1_OrphanSafety ==
  [][ /\ (cache = AfterGetA /\ PutHot(1, 2)) => cache'.dtor[1] = 0
      /\ (cache = AfterPutB /\ handles[1] = [key |-> 1, got |-> 1]
            /\ ItemClose(1)) => cache'.dtor[1] = 1 ]_vars

\* the reference counter of the record that holds data d for owner o: the
\* active item while it holds d, else the orphan stored under d
RefOf(s, o, d) ==
  IF s.active[o].valid /\ s.active[o].data = d THEN s.active[o].refcount
  ELSE IF s.garbage[d].valid /\ s.garbage[d].object = o
       THEN s.garbage[d].refcount
  ELSE 0

Held(h) == handles[h].key # NULL /\ handles[h].got # NULL

\* C2: refcount correctness, for puts of distinct data objects and no purge
\* or destroy. A get hit increments the counter of the owner's entry by
\* one, an item_close decrements the counter of the entry its handle was
\* returned for by one, and a destructor runs at most once per data
\* object, in a step that leaves the counter of that object at zero.
C2_RefcountCorrectness ==
  [][ ~reused' =>
      /\ \A o \in Hot :
           (Get(o) /\ InOrdering(cache, o)) =>
             cache'.active[o].refcount = cache.active[o].refcount + 1
      /\ \A h \in HandleSlots :
           (Held(h) /\ ItemClose(h)) =>
             RefOf(cache', handles[h].key, handles[h].got)
               = RefOf(cache, handles[h].key, handles[h].got) - 1
      /\ \A d \in HotData :
           cache'.dtor[d] # cache.dtor[d] =>
             /\ cache.dtor[d] = 0
             /\ \A o \in Hot : RefOf(cache', o, d) = 0 ]_vars

\* C4: in-flight holders release correctly after an overwrite, for puts of
\* distinct data objects. A put that overwrites an entry with outstanding
\* references moves the old data to the orphan set under the old data's
\* identity and installs the new data with refcount 1; the item_close of a
\* handle obtained before the overwrite releases the orphaned data and
\* leaves the new entry as it is, so that get still returns the new data.
C4_OverwriteRelease ==
  [][ ~reused' =>
      /\ \A o \in Hot, d \in HotData :
           (PutHot(o, d) /\ InOrdering(cache, o)
              /\ cache.active[o].refcount > 1 /\ cache.active[o].data # NULL) =>
             LET old == cache.active[o] IN
             /\ cache'.garbage[old.data].valid
             /\ cache'.garbage[old.data].data = old.data
             /\ cache'.garbage[old.data].destructor
             /\ cache'.dtor[old.data] = cache.dtor[old.data]
             /\ cache'.active[o].data = d
             /\ cache'.active[o].refcount = 1
      /\ \A h \in HandleSlots :
           (Held(h) /\ ItemClose(h) /\ cache.garbage[handles[h].got].valid
              /\ cache.active[handles[h].key].data # handles[h].got) =>
             LET o == handles[h].key
                 new == cache.active[o]
             IN /\ cache'.active[o] = new
                /\ new.data # NULL => cache'.dtor[new.data] = cache.dtor[new.data]
                /\ RefOf(cache', o, handles[h].got)
                     = RefOf(cache, o, handles[h].got) - 1
                /\ mlt_cache_item_data(mlt_cache_get(cache', 1, o).st, o).data
                     = new.data ]_vars

\* C5: data validity while referenced, for puts of distinct data objects
\* and no purge or destroy. No step runs the destructor of a data object
\* for which a handle, returned by get while that object was installed, is
\* held before and after the step.
C5_ValidWhileReferenced ==
  [][ ~reused' =>
      \A h \in HandleSlots :
        (Held(h) /\ handles'[h] = handles[h]) =>
          cache'.dtor[handles[h].got] = cache.dtor[handles[h].got] ]_vars

\* no owner twice in seq
Distinct(seq) ==
  \A i, j \in 1..Len(seq) : i # j => seq[i] # seq[j]

\* the owner of the ordering whose last put or get is the oldest
RECURSIVE LruOf(_, _)
LruOf(s, rec) ==
  IF rec = <<>> THEN NULL
  ELSE IF InOrdering(s, Head(rec)) THEN Head(rec)
  ELSE LruOf(s, Tail(rec))

\* a put of owner o into the cache
IsPut(o) ==
  \/ \E d \in HotData : PutHot(o, d)
  \/ PutFill /\ o = NHot + nextFill + 1

\* C3: cache capacity. The ordering never holds more than CACHE_SIZE
\* owners and holds none twice, and a put of an owner that is not in a full
\* ordering evicts exactly the owner whose last put or get is the oldest,
\* keeping all others.
C3_Capacity ==
  [][ ~closed' =>
      /\ cache'.count \in 0..CACHE_SIZE
      /\ Distinct(Ordering(cache'))
      /\ \A o \in Owners :
           (cache.count = CACHE_SIZE /\ ~InOrdering(cache, o) /\ IsPut(o)) =>
             /\ Head(Ordering(cache)) = LruOf(cache, recency)
             /\ Ordering(cache') = Tail(Ordering(cache)) \o <<o>> ]_vars

\* an eviction has taken place in a cache where a get had promoted owner
\* 1: the cache is full, the first fill owner is gone, and owner 1, of
\* which a handle is held, is in the ordering but not as the latest
C3_Witness ==
  /\ cache.count = CACHE_SIZE
  /\ nextFill >= 1 /\ ~InOrdering(cache, NHot + 1)
  /\ InOrdering(cache, 1)
  /\ Ordering(cache)[CACHE_SIZE] # 1
  /\ \E h \in HandleSlots : handles[h].key = 1

\* C8 as claimed: the mutex is released around the destructor, so that no
\* destructor has run while the mutex was held.
C8_DestructorOutsideMutex == ~cache.dtorLocked

\* C8 as amended: on every path that destroys data (item_close, overwrite
\* and eviction inside put, purge, cache close) the calling thread holds
\* the mutex while the destructor runs, and no call returns holding it.
C8_DestructorUnderMutex == ~cache.dtorUnlocked /\ cache.mutex = 0

\* destructors have run for the data of an evicted fill owner and for the
\* data of a hot owner
C8_Witness ==
  /\ cache.dtorLocked /\ ~closed
  /\ cache.dtor[FillData(NHot + 1)] = 1
  /\ \E d \in HotData : cache.dtor[d] = 1

\* C9: purge unconditionally frees, for puts of distinct data objects.
\* purge(o) runs the destructor of o's active data and of every orphan
\* tagged with o once each, whatever their refcounts, and no other
\* destructor; it removes those orphans and leaves the other ones; it
\* takes o out of the ordering, keeping the order of the others and
\* reducing count by one if o was there; get(o) then misses, and o comes
\* back into the ordering by a put of o only.
C9_Purge ==
  [][ /\ \A o \in Hot :
           (Purge(o) /\ ~reused) =>
             LET it == cache.active[o]
                 Mine(d) ==
                   \/ it.valid /\ it.destructor /\ it.data = d
                   \/ /\ cache.garbage[d].valid /\ cache.garbage[d].object = o
                      /\ cache.garbage[d].destructor
             IN /\ \A d \in Data :
                     IF Mine(d)
                     THEN cache.dtor[d] = 0 /\ cache'.dtor[d] = 1
                     ELSE cache'.dtor[d] = cache.dtor[d]
                /\ \A d \in Data :
                     cache'.garbage[d] =
                       IF cache.garbage[d].object = o THEN NoItem
                       ELSE cache.garbage[d]
                /\ Ordering(cache') = Without(Ordering(cache), o)
                /\ InOrdering(cache, o) => cache'.count = cache.count - 1
                /\ mlt_cache_get(cache', 1, o).result = NULL
      /\ \A o \in Hot :
           (~closed' /\ ~InOrdering(cache, o) /\ InOrdering(cache', o)) => IsPut(o)
      /\ \A o \in Hot :
           (Get(o) /\ ~InOrdering(cache, o)) =>
             handles' = handles /\ Ordering(cache') = Ordering(cache) ]_vars

\* owner 1 has been purged while its data 2 was active and its data 1 an
\* orphan: both are destroyed, no orphan is left, other owners remain
C9_Witness ==
  /\ ~reused /\ ~closed
  /\ cache.dtor[1] = 1 /\ cache.dtor[2] = 1
  /\ \A d \in Data : ~cache.garbage[d].valid
  /\ ~InOrdering(cache, 1)
  /\ cache.count >= 2

AllIdle == \A t \in Threads : pc[t] = "idle"

\* the calls made so far are put(1, A) and then, by two threads, a put(1, B)
\* of the one and a get(1) followed by the item_close of its handle of the
\* other, and all of them have returned
PutVersusGet ==
  /\ AllIdle /\ ~reused /\ nextData = 2
  /\ Len(hist) = 4
  /\ \A i \in 1..4 : hist[i].object = 1
  /\ hist[1].op = "put"
  /\ \E i, j, k \in 2..4 :
       /\ hist[i].op = "put" /\ hist[j].op = "get" /\ hist[k].op = "close"
       /\ j < k
       /\ hist[j].thread = hist[k].thread
       /\ hist[i].thread # hist[j].thread

\* C6: concurrent put versus get on the same owner. After a put(owner, B)
\* by one thread and a get(owner) with its item_close by another thread
\* have both completed, in any interleaving, B is installed and get(owner)
\* returns it, and the destructor of the old data has run at most once.
C6_PutVersusGet ==
  PutVersusGet =>
    /\ InOrdering(cache, 1)
    /\ cache.active[1].data = 2
    /\ mlt_cache_get(cache, 1, 1).result = 1
    /\ mlt_cache_item_data(mlt_cache_get(cache, 1, 1).st, 1).data = 2
    /\ cache.dtor[1] <= 1

\* thread t ends a purge of owner o in this step
PurgeEnds(t, o) ==
  /\ pc'[t] = "idle"
  /\ \/ TPurgeBegin(t, o)
     \/ TPurgeResume(t) /\ loc[t].object = o

\* C7: owner uniqueness under concurrency. In every state that threads
\* calling put, get and purge reach, also while a put or purge has
\* released the mutex in the middle of its call, count is within
\* 0..CACHE_SIZE and no owner is twice in current[0..count-1]; and an
\* owner leaves the ordering only by a purge of it (no put evicts while
\* the cache has room).
C7_OwnerUnique ==
  [][ ~cache'.fault =>
      /\ cache'.count \in 0..CACHE_SIZE
      /\ Distinct(Ordering(cache'))
      /\ \A o \in Hot :
           (InOrdering(cache, o) /\ ~InOrdering(cache', o)) =>
             \E t \in Threads : PurgeEnds(t, o) ]_vars

\* ------------------------------------------------ the ordering as a list
\* the reference list after a put or a get hit of o: o is taken out and
\* appended at the most recently used end, and the head is dropped if the
\* list would hold more than CACHE_SIZE owners
RefTouch(list, o) ==
  LET l == Without(list, o) \o <<o>>
  IN IF Len(l) > CACHE_SIZE THEN Tail(l) ELSE l

\* C11: the ordering refines an abstract list. For one caller, each put(o)
\* and each get(o) that hits turns current[0..count-1] into the list with o
\* removed and appended at the end, the head dropped if the length would
\* exceed CACHE_SIZE; a get that misses and an item_close leave it as it
\* is; purge(o) removes o and keeps the order of the others.
C11_OrderingRefinesList ==
  [][ ~closed' =>
      /\ \A o \in Owners :
           IsPut(o) => Ordering(cache') = RefTouch(Ordering(cache), o)
      /\ \A o \in Hot :
           Get(o) =>
             Ordering(cache') =
               IF InOrdering(cache, o) THEN RefTouch(Ordering(cache), o)
               ELSE Ordering(cache)
      /\ \A o \in Hot :
           Purge(o) => Ordering(cache') = Without(Ordering(cache), o)
      /\ \A h \in HandleSlots :
           ItemClose(h) => Ordering(cache') = Ordering(cache) ]_vars

\* owner 1 was put before owner 2 and two fill owners, a get has promoted
\* it to the end of the ordering past them, where its handle is held, and
\* owner 2 has been purged from between the others
C11_Witness ==
  /\ ~closed /\ nextHot = 2 /\ nextFill >= 2
  /\ cache.count >= 3
  /\ Ordering(cache)[cache.count] = 1
  /\ Ordering(cache)[1] = NHot + 1
  /\ ~InOrdering(cache, 2)
  /\ \E h \in HandleSlots : handles[h].key = 1

\* C12: get hit and put/get round trip, for puts of distinct data objects.
\* A get of an owner that is in the ordering returns a handle, makes the
\* owner the most recently used one and increments its refcount by one;
\* a get straight after put(o, d, size) returns an item whose data and size
\* are d and size, with refcount 2; mlt_cache_item_data changes nothing.
C12_GetHitRoundTrip ==
  [][ ~reused' =>
      /\ \A o \in Hot :
           (Get(o) /\ InOrdering(cache, o)) =>
             /\ \E h \in HandleSlots :
                  handles[h].key = NULL /\ handles'[h].key = o
             /\ Ordering(cache')[cache'.count] = o
             /\ cache'.active[o].refcount = cache.active[o].refcount + 1
      /\ \A o \in Hot, d \in HotData :
           PutHot(o, d) =>
             LET g == mlt_cache_get(cache', 1, o) IN
             /\ cache'.active[o].refcount = 1
             /\ g.result = o
             /\ mlt_cache_item_data(g.st, g.result) =
                  [data |-> d, size |-> SizeOf(d)]
             /\ g.st.active[o].refcount = 2 ]_vars

\* what a caller can observe of the cache: the ordering, the count, both
\* property lists with every refcount, and the runs of the destructors
Observable(s) ==
  <<Ordering(s), s.count, s.active, s.garbage, s.dtor, s.fault, s.mutex>>

\* C13: a get miss changes nothing. A get of an owner that is not in the
\* ordering (never put, evicted or purged) returns no item and leaves the
\* ordering, count, the active list, the garbage collection, every
\* refcount and the handles as they are, also when the cache is full.
C13_GetMissChangesNothing ==
  [][ ~closed' =>
      /\ \A o \in Hot :
           (Get(o) /\ ~InOrdering(cache, o)) =>
             /\ handles' = handles
             /\ Observable(cache') = Observable(cache)
      /\ \A o \in Hot \cup {NHot + 1} :
           ~InOrdering(cache', o) =>
             LET g == mlt_cache_get(cache', 1, o) IN
             /\ g.result = NULL /\ ~g.hit
             /\ Observable(g.st) = Observable(cache') ]_vars

\* a get of owner 1 has missed in a full cache from which owner 1 had been
\* evicted: it is the owner of the latest put or get and not in the
\* ordering, while its item is still in the active list
C13_Witness ==
  /\ ~closed /\ cache.count = CACHE_SIZE
  /\ ~InOrdering(cache, 1)
  /\ recency # <<>> /\ recency[Len(recency)] = 1
  /\ cache.active[1].valid

\* C14: eviction uses the normal release path, for puts of distinct data
\* objects. A put of a new owner into a full cache decrements the refcount
\* of the least recently used owner by one and runs the destructor of its
\* data in that step if and only if no handle on the data is held; the
\* data of an owner evicted while handles were held is destroyed by the
\* item_close of the last of these handles and not before.
C14_EvictionReleases ==
  [][ ~reused' =>
      /\ \A o \in Owners :
           (cache.count = CACHE_SIZE /\ ~InOrdering(cache, o) /\ IsPut(o)) =>
             LET v  == Head(Ordering(cache))
                 it == cache.active[v]
             IN it.data # NULL =>
                  /\ RefOf(cache', v, it.data) = it.refcount - 1
                  /\ cache'.dtor[it.data] =
                       IF \E h \in HandleSlots :
                            handles[h].key = v /\ handles[h].got = it.data
                       THEN cache.dtor[it.data]
                       ELSE cache.dtor[it.data] + 1
      /\ \A h \in HandleSlots :
           (Held(h) /\ ItemClose(h) /\ handles[h].got \in displaced) =>
             LET d == handles[h].got IN
             /\ cache.dtor[d] = 0
             /\ cache'.dtor[d] =
                  IF \E g \in HandleSlots \ {h} : handles[g].got = d
                  THEN 0 ELSE 1 ]_vars

\* ---------------------------------------------------------------- frames
\* the consumer calls mlt_frame_get_image with the parameters a
IsGetImage(a) == \E env \in Envs : GetImage(a, env)

\* what the step has added to the log of the callbacks
NewLog == SubSeq(frame'.log, Len(frame.log) + 1, Len(frame'.log))

\* how often the callback id has been called according to log
CallsOf(log, id) ==
  Cardinality({i \in 1..Len(log) : log[i].ev = "call" /\ log[i].id = id})

\* the latest call on the frame was a mlt_frame_get_image with the
\* parameters a that called a callback
ResolvedByStep(a) ==
  last.op = "get_image" /\ last.a = a /\ frame.log # <<>>
    /\ frame.log[Len(frame.log)].ev = "ret"
    /\ \A i \in 1..Len(frame.log) : frame.log[i].ev # "audio"

Ev(ev, id) == [ev |-> ev, id |-> id]

EventsOf(log) == [i \in 1..Len(log) |-> Ev(log[i].ev, log[i].id)]

\* the entry on top of the image stack
TopEntry == frame.stack_image[Len(frame.stack_image)]

\* the position from the bottom of the callback id in the image stack, 0
\* if it is not there
PositionOf(id) ==
  IF \E i \in 1..Len(frame.stack_image) :
       frame.stack_image[i].kind = "get_image" /\ frame.stack_image[i].id = id
  THEN CHOOSE i \in 1..Len(frame.stack_image) :
       frame.stack_image[i].kind = "get_image" /\ frame.stack_image[i].id = id
  ELSE 0

\* C16 as claimed: stack LIFO order. A mlt_frame_get_image on a stack that
\* holds the callback A below the callback B calls B, and A is not called
\* before B has returned; a callback that B pushes while it runs has been
\* called and has returned when mlt_frame_get_image returns.
C16_LifoResolvesPushed ==
  [][ \A a \in Requests :
        (IsGetImage(a) /\ frame.stack_image # <<>>) =>
          LET new == EventsOf(NewLog)
              B   == TopEntry
          IN /\ new # <<>> /\ new[1] = Ev("call", B.id)
             /\ \A i \in 1..Len(new) :
                  (new[i].ev = "call" /\ PositionOf(new[i].id) # 0
                     /\ new[i].id # B.id) =>
                    \E j \in 1..(i - 1) : new[j] = Ev("ret", B.id)
             /\ B.type \in {"pusher", "pusher_only"} =>
                  \E i \in 1..Len(new) : new[i] = Ev("ret", PushedStep(B.id)) ]_vars

\* C16 as amended: mlt_frame_get_image calls the callback on top of the
\* stack and nothing else; a callback below it is called only by a further
\* mlt_frame_get_image, made by the callback while it runs or by a later
\* caller, so that callbacks are called in the reverse order of their
\* pushes and a call made by a callback returns before that callback does.
\* A callback pushed by B is called before B returns if B gets the image
\* after the push, and otherwise stays on top of the stack.
C16_LifoOnePerCall ==
  [][ \A a \in Requests :
        (IsGetImage(a) /\ frame.stack_image # <<>> /\ ~frame'.fault) =>
          LET new == EventsOf(NewLog)
              B   == TopEntry
              C   == PushedStep(B.id)
          IN /\ new # <<>> /\ new[1] = Ev("call", B.id)
             /\ new[Len(new)] = Ev("ret", B.id)
             /\ \A i, j \in 1..Len(new) :
                  (i < j /\ new[i].ev = "call" /\ new[j].ev = "call"
                     /\ PositionOf(new[i].id) # 0 /\ PositionOf(new[j].id) # 0) =>
                    PositionOf(new[j].id) < PositionOf(new[i].id)
             /\ B.type \in {"producer", "plain", "fail"} =>
                  /\ new = <<Ev("call", B.id), Ev("ret", B.id)>>
                  /\ frame'.stack_image =
                       SubSeq(frame.stack_image, 1, Len(frame.stack_image) - 1)
             /\ B.type = "pusher" =>
                  /\ new = <<Ev("call", B.id), Ev("call", C), Ev("ret", C),
                             Ev("ret", B.id)>>
                  /\ frame'.stack_image =
                       SubSeq(frame.stack_image, 1, Len(frame.stack_image) - 1)
             /\ B.type = "pusher_only" =>
                  /\ new = <<Ev("call", B.id), Ev("ret", B.id)>>
                  /\ frame'.stack_image[Len(frame'.stack_image)].id = C
             /\ B.type = "filter" =>
                  \A i \in 2..(Len(new) - 1) :
                    new[i].id # B.id ]_vars

\* A was pushed, then B, which pushes C and gets the image: B, C have been
\* called and have returned in that order of calls, and A is on the stack
C16_Witness ==
  /\ last.op = "get_image"
  /\ EventsOf(frame.log) =
       <<Ev("call", 2), Ev("call", PushedStep(2)), Ev("ret", PushedStep(2)),
         Ev("ret", 2)>>
  /\ Len(frame.stack_image) = 1 /\ frame.stack_image[1].id = 1

\* C17 as claimed: the resolved state is sticky. Once the frame has an image
\* in its properties, mlt_frame_get_image returns that image, pops no entry
\* and calls no callback, whatever is on the image stack.
C17_ResolvedIsSticky ==
  [][ \A a \in Requests :
        (IsGetImage(a) /\ frame.image # NULL) =>
          /\ last'.r.buffer = frame.image
          /\ frame'.stack_image = frame.stack_image
          /\ frame'.log = frame.log ]_vars

\* C17 as amended: once the frame has an image in its properties and its
\* image stack is empty, mlt_frame_get_image returns that image with the
\* format, width and height of the properties, calls no callback and
\* leaves the stack empty and the image as it is; a callback on the stack
\* comes first: it is popped and called although the frame has an image.
C17_ResolvedWhenDrained ==
  [][ \A a \in Requests :
        (IsGetImage(a) /\ frame.image # NULL) =>
          IF frame.stack_image = <<>>
          THEN /\ last'.r.buffer = frame.image
               /\ last'.r.format = frame.format
               /\ last'.r.width = frame.width
               /\ last'.r.height = frame.height
               /\ last'.r.error = 0
               /\ frame'.stack_image = <<>>
               /\ frame'.log = frame.log
               /\ frame'.image = frame.image
               /\ frame'.test_image = frame.test_image
          ELSE /\ NewLog # <<>>
               /\ NewLog[1].ev = "call" /\ NewLog[1].id = TopEntry.id
               /\ Len(frame'.stack_image) < Len(frame.stack_image)
                    \/ TopEntry.type = "pusher_only" ]_vars

\* the image that mlt_frame_replace_image had installed has been returned
\* by a mlt_frame_get_image that asked for another format and size, on an
\* empty stack and with a test card producer set
C17_Witness ==
  /\ last.op = "get_image" /\ last.a.format = "none"
  /\ last.r.buffer = ReplacedImage /\ last.r.format = "yuv422"
  /\ last.r.width = 4
  /\ frame.image = ReplacedImage
  /\ frame.test_card_producer # NULL
  /\ frame.stack_image = <<>> /\ frame.log = <<>>

\* C18: resolve_image precedence and no retry. A mlt_frame_get_image whose
\* stack has a callback on top pops that entry and calls it first, with
\* the parameters of the request; a callback that calls nothing itself is
\* the only one called, and what it returns is returned as it is: after a
\* failing callback the buffer is the null pointer of the caller and the
\* error is the callback's, and neither the image of the properties, the
\* test card nor a placeholder is put in its place. Only on an empty stack
\* does the call return the image of the properties, else the image of the
\* test card producer's frame, else a placeholder.
C18_PrecedenceNoRetry ==
  [][ \A a \in Requests, env \in Envs :
        GetImage(a, env) =>
          IF frame.stack_image # <<>>
          THEN LET B == TopEntry IN
               /\ NewLog # <<>>
               /\ NewLog[1] = [ev |-> "call", id |-> B.id, format |-> a.format,
                               width |-> a.width, height |-> a.height,
                               writable |-> a.writable]
               /\ CallsOf(NewLog, B.id) = 1
               /\ B.type \in {"producer", "plain", "fail", "pusher_only"} =>
                    /\ Len(NewLog) = 2
                    /\ last'.popped = IF B.type = "pusher_only" THEN 0 ELSE 1
               /\ B.type = "plain" =>
                    /\ last'.r.buffer = B.id /\ last'.r.error = 0
                    /\ frame'.image = frame.image
               /\ B.type = "fail" =>
                    /\ last'.r.buffer = NULL /\ last'.r.error = 1
                    /\ last'.r.format = a.format
                    /\ frame'.image = frame.image
                    /\ frame'.test_image = frame.test_image
                    /\ frame'.test_card_frame = frame.test_card_frame
                    /\ frame'.stack_image =
                         SubSeq(frame.stack_image, 1, Len(frame.stack_image) - 1)
          ELSE /\ frame'.stack_image = <<>> /\ frame'.log = frame.log
               /\ last'.r.error = 0
               /\ IF frame.image # NULL
                  THEN /\ last'.r.buffer = frame.image
                       /\ frame'.image = frame.image
                       /\ frame'.test_card_frame = frame.test_card_frame
                       /\ frame'.test_image = frame.test_image
                  ELSE IF frame.test_card_producer # NULL /\ env.card
                  THEN /\ last'.r.buffer = TestCardImage
                       /\ frame'.image = TestCardImage
                       /\ frame'.test_image = frame.test_image
                  ELSE /\ last'.r.buffer =
                            IF a.format = "none" \/ ~env.alloc THEN NULL
                            ELSE PlaceholderImage
                       /\ frame'.image = last'.r.buffer
                       /\ frame'.test_image = 1
                       /\ last'.r.width = IF a.width = 0 THEN 720 ELSE a.width
                       /\ last'.r.height = IF a.height = 0 THEN 576 ELSE a.height ]_vars

\* a callback has failed on a frame that has an image in its properties and
\* a test card producer: the call returned a null buffer and the error
C18_Witness ==
  /\ last.op = "get_image" /\ last.popped = 1
  /\ last.r.buffer = NULL /\ last.r.error = 1
  /\ frame.image # NULL /\ frame.test_card_producer # NULL
  /\ frame.test_image = 0
  /\ frame.log # <<>> /\ frame.log[Len(frame.log)].ev = "ret"

\* C19: mlt_frame_replace_image clears the whole image stack and installs
\* the buffer as the image. After the call, whatever the stack held (ints
\* of value 0 and aspect ratios of 0.0 included), the image stack is
\* empty, no alpha callback is set, and the next mlt_frame_get_image
\* returns the buffer with the format, width and height given, calling no
\* callback.
C19_ReplaceClearsStack ==
  [][ \A a \in Requests :
        ReplaceImage(a) =>
          /\ frame'.stack_image = <<>>
          /\ frame'.get_alpha_mask = NULL
          /\ \A a2 \in Requests, env \in Envs :
               LET r == mlt_frame_get_image(frame', a2, env) IN
               /\ r.buffer = ReplacedImage
               /\ r.format = a.format /\ r.width = a.width
               /\ r.height = a.height
               /\ r.f.log = frame'.log ]_vars

\* the consumer calls mlt_frame_get_audio
IsGetAudio == \E env \in Envs : GetAudio(AudioParams(0, 0, 0), env)

\* C20 as claimed: after the image (the audio) of the frame has been got,
\* mlt_frame_is_test_card (mlt_frame_is_test_audio) is true if and only if
\* the stack was empty when it was got or the flag test_image (test_audio)
\* is set; a frame whose image a callback has produced and whose flag is
\* not set reports false.
C20_TestCardAtResolution ==
  [][ /\ \A a \in Requests :
           IsGetImage(a) =>
             (mlt_frame_is_test_card(frame') <=>
                (frame.stack_image = <<>> \/ frame'.test_image # 0))
      /\ IsGetAudio =>
           (mlt_frame_is_test_audio(frame') <=>
              (frame.stack_audio = <<>> \/ frame'.test_audio # 0)) ]_vars

\* C20 as amended: mlt_frame_is_test_card (mlt_frame_is_test_audio) is true
\* if and only if the image (audio) stack is empty at the time of the call
\* or the flag test_image (test_audio) is set. After a mlt_frame_get_image
\* that popped the only callback it is true although a callback produced
\* the image and the flag is not set; it is false only while entries are
\* left on the stack and the flag is not set.
C20_TestCardAtCall ==
  [][ /\ mlt_frame_is_test_card(frame') <=>
           (Len(frame'.stack_image) = 0 \/ frame'.test_image = 1)
      /\ mlt_frame_is_test_audio(frame') <=>
           (Len(frame'.stack_audio) = 0 \/ frame'.test_audio = 1)
      /\ \A a \in Requests :
           (IsGetImage(a) /\ Len(frame.stack_image) = 1
              /\ TopEntry.type \in {"producer", "plain", "fail"}) =>
             mlt_frame_is_test_card(frame')
      /\ \A a \in Requests :
           (IsGetImage(a) /\ Len(frame.stack_image) > 1
              /\ TopEntry.type \in {"producer", "plain", "fail"}
              /\ frame.test_image = 0) =>
             ~mlt_frame_is_test_card(frame')
      /\ (IsGetAudio /\ frame.stack_audio # <<>>) =>
           mlt_frame_is_test_audio(frame') ]_vars

\* a callback has produced the image of the frame and another its audio,
\* no flag is set, and both stacks are empty
C20_Witness ==
  /\ frame.image = 1 /\ frame.test_image = 0
  /\ frame.audio = AudioBuffer /\ frame.test_audio = 0
  /\ frame.stack_image = <<>> /\ frame.stack_audio = <<>>
  /\ mlt_frame_is_test_card(frame) /\ mlt_frame_is_test_audio(frame)
  /\ last.op \in {"get_image", "get_audio"}

\* the bytes of one image of the format, without the spare line the
\* placeholder adds
ImageBytes(format, width, height) ==
  IF format = "none" THEN 0
  ELSE IF format = "rgb24" THEN width * height * 3
  ELSE IF format \in {"rgb24a", "opengl"} THEN width * height * 4
  ELSE IF format = "yuv422" THEN width * height * 2
  ELSE (width * height * 3) \div 2

\* mlt_frame_get_image with the parameters a takes the placeholder path:
\* the image stack is empty, no image is stored and no test card producer
\* is set
IsPlaceholderCall(a) ==
  /\ IsGetImage(a) /\ frame.stack_image = <<>> /\ frame.image = NULL
  /\ frame.test_card_producer = NULL

\* what the placeholder path returns and records for the parameters a
PlaceholderContract(a, r) ==
  LET w == IF a.width = 0 THEN 720 ELSE a.width
      h == IF a.height = 0 THEN 576 ELSE a.height
  IN /\ r.error = 0 /\ r.width = w /\ r.height = h /\ r.format = a.format
     /\ r.f.format = a.format /\ r.f.width = w /\ r.f.height = h
     /\ r.f.test_image = 1
     /\ r.f.image = r.buffer
     /\ r.f.image_size >= ImageBytes(a.format, w, h)
     /\ (a.format = "none" => r.buffer = NULL /\ r.f.image_size = 0)

\* C21 as claimed: on the placeholder path mlt_frame_get_image returns 0
\* with a buffer of the requested size (720 for width 0, 576 for height 0),
\* records format, width and height, sets test_image and stores the buffer,
\* and a second mlt_frame_get_image returns the same buffer and makes no
\* placeholder again; for the format none the buffer is null.
C21_PlaceholderMemoized ==
  [][ \A a \in Requests :
        IsPlaceholderCall(a) =>
          /\ PlaceholderContract(a, [last'.r EXCEPT !.f = frame'])
          /\ \A a2 \in Requests, env2 \in Envs :
               LET r2 == mlt_frame_get_image(frame', a2, env2) IN
               /\ r2.buffer = last'.r.buffer
               /\ r2.f.image = frame'.image
               /\ r2.f.width = frame'.width /\ r2.f.height = frame'.height ]_vars

\* C21 as amended: on the placeholder path mlt_frame_get_image returns 0,
\* replaces width 0 by 720 and height 0 by 576, records format, width and
\* height, sets test_image and stores the buffer with a size of at least
\* one image of the request, for every pixel format. If the buffer is not
\* null, a second mlt_frame_get_image returns the same buffer with the
\* recorded format and size whatever it asks for, and makes no placeholder
\* again. For the format none (or when the pool gives no buffer) the buffer
\* is null, nothing is kept, and a second mlt_frame_get_image makes a
\* placeholder for its own request.
C21_PlaceholderStoredIfBuffer ==
  [][ \A a \in Requests :
        IsPlaceholderCall(a) =>
          /\ PlaceholderContract(a, [last'.r EXCEPT !.f = frame'])
          /\ \A fmt \in Formats, w \in {0, 4}, h \in {0, 2}, env \in Envs :
               LET b == Params(NULL, fmt, w, h, 0) IN
               PlaceholderContract(b, mlt_frame_get_image(frame, b, env))
          /\ \A a2 \in Requests, env2 \in Envs :
               LET r2 == mlt_frame_get_image(frame', a2, env2) IN
               IF last'.r.buffer # NULL
               THEN /\ r2.buffer = last'.r.buffer
                    /\ r2.format = a.format
                    /\ r2.width = last'.r.width /\ r2.height = last'.r.height
                    /\ r2.f = [frame' EXCEPT !.scaled_width = r2.width,
                                             !.scaled_height = r2.height]
               ELSE PlaceholderContract(a2, r2) ]_vars

\* a placeholder was made for the request of 4 x 2 yuv422, and the
\* mlt_frame_get_image after it, which asked for no format and no size, has
\* returned that buffer with the recorded format and size
C21_Witness ==
  /\ last.op = "get_image" /\ last.a.format = "none" /\ last.popped = 0
  /\ last.r.buffer = PlaceholderImage /\ last.r.format = "yuv422"
  /\ last.r.width = 4 /\ last.r.height = 2
  /\ frame.image = PlaceholderImage /\ frame.test_image = 1
  /\ frame.image_size = 24
  /\ frame.log = <<>> /\ fops = 2

\* ----------------------------------------------------------------- audio
\* the entry on top of the audio stack
TopAudio == frame.stack_audio[Len(frame.stack_audio)]

\* the step has called the callback on top of the audio stack first
InvokedTopAudio ==
  /\ Len(frame'.log) > Len(frame.log)
  /\ NewLog[1].ev = "audio" /\ NewLog[1].id = TopAudio.id

\* the call has returned the audio stored in the frame with the stored
\* frequency, channels and samples, and has called no callback
ReturnedStoredAudio ==
  /\ last'.r.buffer = frame.audio
  /\ last'.r.frequency = frame.audio_frequency
  /\ last'.r.channels = frame.audio_channels
  /\ last'.r.samples = frame.audio_samples
  /\ frame'.audio = frame.audio /\ frame'.test_audio = frame.test_audio
  /\ frame'.log = frame.log

\* the call has made silence for the parameters a: a buffer of samples x
\* channels samples of value 0, where a value that is not positive is
\* replaced by 1920 samples, 2 channels and 48000 Hz; the buffer is stored
\* and test_audio set
ReturnedSilence(a, env) ==
  LET samples   == IF a.samples <= 0 THEN 1920 ELSE a.samples
      channels  == IF a.channels <= 0 THEN 2 ELSE a.channels
      frequency == IF a.frequency <= 0 THEN 48000 ELSE a.frequency
  IN /\ last'.r.samples = samples /\ last'.r.channels = channels
     /\ last'.r.frequency = frequency
     /\ last'.r.buffer = IF env.alloc THEN SilenceBuffer ELSE NULL
     /\ env.alloc => frame'.pcm[SilenceBuffer] = Pcm(<<>>, samples * channels)
     /\ frame'.audio = last'.r.buffer /\ frame'.test_audio = 1
     /\ frame'.log = frame.log

\* frequency, channels and samples are written back to the properties
WrittenBack ==
  /\ frame'.audio_frequency = last'.r.frequency
  /\ frame'.audio_channels = last'.r.channels
  /\ frame'.audio_samples = last'.r.samples

\* C22 as claimed: mlt_frame_get_audio calls the get_audio callback if one
\* is on the audio stack, else returns the stored audio with its stored
\* frequency, channels and samples, else makes silence with the defaults,
\* stores it and sets test_audio; frequency, channels and samples are
\* written back on every path.
C22_AudioPrecedence ==
  [][ \A a \in AudioRequests, env \in Envs :
        GetAudio(a, env) =>
          /\ WrittenBack
          /\ IF frame.stack_audio # <<>> THEN InvokedTopAudio
             ELSE IF frame.audio # NULL THEN ReturnedStoredAudio
             ELSE ReturnedSilence(a, env) ]_vars

\* C22 as amended: mlt_frame_get_audio always pops the top of the audio
\* stack; it calls the popped callback only if test_audio is 0. If there
\* was no callback or test_audio is not 0 (the popped callback is then
\* dropped without a call), it returns the stored audio with its stored
\* frequency, channels and samples, else makes silence with the defaults,
\* stores it and sets test_audio; frequency, channels and samples are
\* written back on every path.
C22_AudioPrecedenceUnlessHidden ==
  [][ \A a \in AudioRequests, env \in Envs :
        GetAudio(a, env) =>
          /\ WrittenBack
          /\ frame.stack_audio # <<>> =>
               Len(frame'.stack_audio) < Len(frame.stack_audio)
          /\ IF frame.stack_audio # <<>> /\ frame.test_audio = 0
             THEN InvokedTopAudio
             ELSE IF frame.audio # NULL THEN ReturnedStoredAudio
             ELSE ReturnedSilence(a, env) ]_vars

\* test_audio was set and a callback pushed; mlt_frame_get_audio asked with
\* values that are not positive, popped the callback without a call and
\* returned silence of 1920 samples in 2 channels at 48000 Hz
C22_Witness ==
  /\ last.op = "get_audio" /\ last.popped = 1 /\ last.a.samples = -1
  /\ frame.log = <<>>
  /\ last.r.buffer = SilenceBuffer /\ last.r.samples = 1920
  /\ last.r.channels = 2 /\ last.r.frequency = 48000
  /\ frame.pcm[SilenceBuffer] = Pcm(<<>>, 3840)
  /\ frame.audio = SilenceBuffer /\ frame.test_audio = 1
  /\ frame.audio_samples = 1920

\* the sample p times halves / 2, rounded towards zero
Scaled(p, halves) ==
  CHOOSE q \in -8..8 :
    /\ 2 * q - p * halves \in {-1, 0, 1}
    /\ (IF q < 0 THEN 0 - q ELSE q) * 2
         <= (IF p * halves < 0 THEN 0 - p * halves ELSE p * halves)

\* the samples pcm with the volume str applied once to the first total of
\* them: 0 for 0.0, the same for 1.0, scaled otherwise
VolumeOnce(pcm, total, str) ==
  Pcm([i \in 1..Len(pcm.s) |->
         IF i > total \/ str = "1.0" THEN pcm.s[i]
         ELSE IF str = "0.0" THEN 0
         ELSE Scaled(pcm.s[i], 1)],
      pcm.z)

\* C23: after mlt_frame_get_audio has returned, meta.volume is unset. A
\* meta.volume set before the call is applied once to the samples x
\* channels samples of the buffer returned (0 for 0.0, unchanged for 1.0,
\* scaled otherwise), also when a callback gets the audio by a nested
\* mlt_frame_get_audio; a call without a meta.volume returns what it would
\* return anyway and leaves the samples of the stored audio as they are.
C23_VolumeAppliedOnce ==
  [][ \A a \in AudioRequests, env \in Envs :
        (GetAudio(a, env) /\ ~frame'.fault) =>
          LET r0    == mlt_frame_get_audio([frame EXCEPT !.meta_volume = ""],
                                           a, env)
              b     == last'.r.buffer
              total == last'.r.samples * last'.r.channels
          IN /\ frame'.meta_volume = ""
             /\ r0.buffer = b /\ r0.samples = last'.r.samples
             /\ r0.channels = last'.r.channels
             /\ b # NULL =>
                  frame'.pcm[b] =
                    IF frame.meta_volume = "" THEN r0.f.pcm[b]
                    ELSE VolumeOnce(r0.f.pcm[b], total, frame.meta_volume)
             /\ (frame.meta_volume = "" /\ frame.audio # NULL
                   /\ frame'.log = frame.log) =>
                  frame'.pcm[frame.audio] = frame.pcm[frame.audio] ]_vars

\* meta.volume was set to 0.5 and one mlt_frame_get_audio called a callback
\* that got the audio of the producer callback by a nested
\* mlt_frame_get_audio: the samples 6, -5, 4, -3 are halved once
C23_Witness ==
  /\ last.op = "get_audio" /\ last.r.buffer = AudioBuffer /\ fops = 4
  /\ Len(frame.log) = 2 /\ frame.log[1].id = NULL
  /\ frame.log[2].id = AudioBuffer
  /\ frame.pcm[AudioBuffer] = Pcm(<<3, -2, 2, -1>>, 0)
  /\ frame.meta_volume = "" /\ frame.audio = AudioBuffer

\* ----------------------------------------------------------------- close
\* the step is a mlt_frame_close that brings the reference count to zero
ClosesAtZero == Close /\ frame.ref_count - 1 <= 0

\* the ids of the services that log says were closed, in that order
RECURSIVE ServiceCloses(_)
ServiceCloses(log) ==
  IF log = <<>> THEN <<>>
  ELSE IF Head(log).ev = "service_close"
  THEN <<Head(log).id>> \o ServiceCloses(Tail(log))
  ELSE ServiceCloses(Tail(log))

\* C24: when mlt_frame_close brings the reference count to zero, every
\* frame that is still on the image stack is closed.
C24_CloseReleasesSubFrames ==
  [][ ClosesAtZero =>
        \A i \in 1..Len(frame.stack_image) :
          frame.stack_image[i].kind = "frame" =>
            \E k \in 1..Len(frame'.closes) :
              /\ frame'.closes[k].ev = "frame_close"
              /\ frame'.closes[k].id = frame.stack_image[i].id ]_vars

\* C25: mlt_frame_close takes one from the reference count and tears
\* nothing down while the count stays above zero; at zero every service of
\* the service stack is closed once, the one pushed last first, and the
\* properties are closed after all of them.
C25_CloseOrdering ==
  [][ Close =>
        /\ frame'.ref_count = frame.ref_count - 1
        /\ IF frame'.ref_count > 0
           THEN frame' = [frame EXCEPT !.ref_count = @ - 1]
           ELSE LET n == Len(frame.stack_service)
                    m == Len(frame'.closes)
                IN /\ frame'.freed
                   /\ ServiceCloses(frame'.closes) =
                        [i \in 1..n |-> frame.stack_service[n + 1 - i].id]
                   /\ frame'.closes[m].ev = "properties_close"
                   /\ \A k \in 1..(m - 1) :
                        frame'.closes[k].ev # "properties_close" ]_vars

\* the frame with the services 2, 3 and 1 on its service stack was closed
\* by its last holder: the services were closed in the order 1, 3, 2
C25_Witness ==
  /\ frame.freed /\ frame.ref_count = 0 /\ last.op = "close"
  /\ ServiceCloses(frame.closes) = <<1, 3, 2>>

\* --------------------------------------------------------------- samples
\* C26: at 29.97 frames per second and 44100 Hz the samples of any 300
\* frames in a row add up to 441441, which is 300 x 44100 / 29.97 rounded
\* to the nearest integer.
C26_NtscLongRunAverage ==
  (pure.fps = Ntsc /\ pure.frequency = 44100
     /\ pure.position - pure.start = 300) =>
    pure.total = 441441

\* C27: for 29.97 frames per second at 48000, 44100 and 32000 Hz and for
\* the frame rates that are integers, mlt_sample_calculator_to_now of the
\* frame n is the sum of mlt_sample_calculator over the frames 0 .. n - 1.
C27_ToNowIsSum ==
  pure.start = 0 =>
    mlt_sample_calculator_to_now(pure.fps, pure.frequency, pure.position)
      = pure.total

\* ------------------------------------------------------------------- mix
\* the samples of the buffer p in the frames fs
BufferOf(fs, p) == fs[p.fr].pcm[p.id]

\* two buffers hold the same samples
SameContent(p, q) ==
  /\ PcmLen(p) = PcmLen(q)
  /\ \A i \in 0..(Len(p.s) + Len(q.s)) : Sample(p, i) = Sample(q, i)

\* the buffer with every sample 0
Zeroed(pcm) == Pcm(<<>>, PcmLen(pcm))

\* the counts that mlt_frame_get_audio gave for both frames are within the
\* limits of mlt_frame_mix_audio
InBounds(g) ==
  /\ g.channels_src <= 6 /\ g.channels_dest <= 6
  /\ g.samples_src <= 4000 /\ g.samples_dest <= 4000

Least(m, n) == IF m < n THEN m ELSE n

\* the destination and the source as mlt_frame_get_audio returned them,
\* after the filling with 0 that silent_audio asks for: of the destination
\* if this has it set, of the source if that has it set and is not this
DestSilenced(g, this) ==
  IF g.silent_this # 0 \/ (g.src = g.dest /\ g.silent_that # 0)
  THEN Zeroed(g.dest0) ELSE g.dest0

SrcSilenced(g, this, that) ==
  IF (that # this /\ g.silent_that # 0) \/ (g.src = g.dest /\ g.silent_this # 0)
  THEN Zeroed(g.src0) ELSE g.src0

\* the step is a call of mlt_frame_mix_audio; its arguments are in pure'
IsMixAudio == pure'.calls = pure.calls + 1

\* the call has returned, both buffers are there
Mixed(g) ==
  /\ ~pure'.fs[1].fault /\ ~pure'.fs[2].fault
  /\ g.src.id # NULL /\ g.dest.id # NULL

Degenerate(owidth, oheight, iwidth, iheight) ==
  owidth <= 6 \/ oheight <= 6 \/ iwidth <= 6 \/ iheight <= 6

\* the step is a call of mlt_frame_resize_yuv422; its arguments are in pure'
IsResize == pure'.calls = pure.calls + 1

\* C30: a resize to a width or height of 6 pixels or less, or of an image
\* with a width or height of 6 or less, returns the input unchanged: the
\* image of the frame, its width and height and the image returned are
\* those before the call.
C30_DegenerateIsNoOp ==
  [][ (IsResize /\ ~pure.m.image.null /\ ~pure'.m.fault /\ ~pure'.ret.null
         /\ Degenerate(pure'.owidth, pure'.oheight,
                       pure.m.width, pure.m.height)) =>
        /\ pure'.m.image = pure.m.image
        /\ pure'.m.width = pure.m.width
        /\ pure'.m.height = pure.m.height
        /\ pure'.ret = pure.m.image ]_vars


\* the call resizes an image that is there to other sizes, all above 6
\* pixels, and the pool gave the output
IsResizeAboveSix ==
  /\ IsResize /\ ~pure.m.image.null /\ ~pure'.ret.null
  /\ ~Degenerate(pure'.owidth, pure'.oheight, pure.m.width, pure.m.height)
  /\ (pure.m.width # pure'.owidth \/ pure.m.height # pure'.oheight)

\* mlt_resize_yuv422 of the call on an output of owidth * oheight * 2 bytes
ResizedInto(owidth, oheight, m) ==
  mlt_resize_yuv422(Buf([k \in 1..(owidth * oheight * 2) |-> 0]),
                    owidth, oheight, m.image, m.width, m.height)

\* the byte k (from 0) of an output of owidth * oheight pixels that holds
\* the input centred, and cropped where the input is the larger one: the
\* byte of the input that lies offset_y rows and offset_x bytes before it,
\* black (16, 128) where the input has none
CentredOrCropped(k, owidth, oheight, input, iwidth, iheight) ==
  LET offset_y == CDiv(oheight - iheight, 2)
      offset_x == (owidth - iwidth) - CRem(owidth - iwidth, 4)
      y == (k \div (owidth * 2)) - offset_y
      x == (k % (owidth * 2)) - offset_x
  IN IF y >= 0 /\ y < iheight /\ x >= 0 /\ x < iwidth * 2
     THEN input.b[y * iwidth * 2 + x + 1]
     ELSE IF k % 2 = 0 THEN 16 ELSE 128

\* C31: for all sizes of input and output above 6 pixels mlt_resize_yuv422
\* writes only inside the owidth * oheight * 2 bytes of the output; a
\* larger output holds the rows of the input centred and black (16, 128)
\* everywhere else, a smaller output holds the input cropped to its size.
C31_ResizeCentresOrCrops ==
  [][ IsResizeAboveSix =>
        /\ ~ResizedInto(pure'.owidth, pure'.oheight, pure.m).fault
        /\ \A k \in 0..(pure'.owidth * pure'.oheight * 2 - 1) :
             pure'.ret.b[k + 1] =
               CentredOrCropped(k, pure'.owidth, pure'.oheight,
                                pure.m.image, pure.m.width, pure.m.height)
      ]_vars


\* ---------------------------------------------------------------- leaks
\* no handle is held
AllHandlesClosed == \A h \in HandleSlots : handles[h].key = NULL

\* the data pointers passed to mlt_cache_put so far
PutSoFar == {d \in HotData : d <= nextData}

\* C32: after any put, get and item_close of one caller in which every
\* handle has been closed, mlt_cache_close leaves every data object that
\* was ever passed to mlt_cache_put with its destructor run exactly once.
C32_NoDataLeaks ==
  [][ (Destroy /\ ~reused /\ AllHandlesClosed) =>
        \A d \in PutSoFar : cache'.dtor[d] = 1 ]_vars


\* -------------------------------------------------------------- orphans
\* the record of the garbage collection under the data address d is there
Orphan(s, d) == s.garbage[d].valid

\* the step stores a record under d: none was there, or another one was
StoresOrphan(d) ==
  /\ Orphan(cache', d)
  /\ \/ ~Orphan(cache, d)
     \/ /\ cache'.garbage[d] # cache.garbage[d]
        /\ cache'.garbage[d].refcount >= cache.garbage[d].refcount

\* the step removes the record under d
RemovesOrphan(d) == Orphan(cache, d) /\ ~Orphan(cache', d)

\* C33: in every state each record of the garbage collection has a
\* refcount above 0, a data pointer that is not NULL and a destructor. A
\* record is stored only by a mlt_cache_put that overwrites an item with
\* refcount above 0 and data that is not NULL, and it is removed in the
\* step in which its refcount reaches 0 (its data destroyed) or in which
\* its owner is purged.
C33_OrphanSet ==
  [][ /\ \A d \in Data :
           Orphan(cache', d) =>
             /\ cache'.garbage[d].refcount > 0
             /\ cache'.garbage[d].data = d
             /\ cache'.garbage[d].destructor
      /\ \A d \in Data :
           StoresOrphan(d) =>
             \E o \in Hot, e \in HotData :
               /\ PutHot(o, e)
               /\ cache.active[o].valid /\ cache.active[o].data = d
               /\ cache.active[o].refcount > 0
               /\ cache'.garbage[d].object = o
      /\ \A d \in Data :
           RemovesOrphan(d) =>
             /\ cache'.dtor[d] > cache.dtor[d] \/ cache.dtor[d] = MaxDestroy
             /\ \/ \E o \in Hot : Purge(o) /\ cache.garbage[d].object = o
                \/ /\ cache.garbage[d].refcount = 1
                   /\ \E h \in HandleSlots : ItemClose(h) ]_vars

\* a put has overwritten data of which a handle is held: its record is in
\* the garbage collection
C33_Witness ==
  \E d \in Data, h \in HandleSlots :
    /\ Orphan(cache, d) /\ cache.garbage[d].refcount = 1
    /\ handles[h].got = d
    /\ \E o \in Hot : cache.active[o].valid /\ cache.active[o].data # d
                      /\ cache.garbage[d].object = o


\* ------------------------------------------------------------- geometry
\* C34: after every return of mlt_frame_get_image the properties width,
\* height and format of the frame are the width, height and format the
\* call returned, and scaled_width and scaled_height are the width and
\* height returned, whether a callback was called, the image of the
\* properties returned, the test card producer used or a placeholder made.
C34_GeometryWrittenBack ==
  [][ \A a \in Requests :
        (IsGetImage(a) /\ ~frame'.fault) =>
          /\ frame'.width = last'.r.width
          /\ frame'.height = last'.r.height
          /\ frame'.format = last'.r.format
          /\ frame'.scaled_width = last'.r.width
          /\ frame'.scaled_height = last'.r.height ]_vars

\* a callback that stores nothing has returned its buffer for a request of
\* 4 x 2 pixels in yuv422 on a frame of 720 x 576: the properties hold the
\* size and the format returned
C34_Witness ==
  /\ last.op = "get_image" /\ last.r.error = 0 /\ last.r.buffer # NULL
  /\ frame.image = NULL /\ frame.log # <<>>
  /\ last.r.width = 4 /\ last.r.height = 2 /\ last.r.format = "yuv422"
  /\ frame.width = 4 /\ frame.height = 2 /\ frame.format = "yuv422"
  /\ frame.scaled_width = 4 /\ frame.scaled_height = 2


\* ------------------------------------------------- the test card producer
\* the image stack is empty, no image is stored and a test card producer
\* is set: mlt_frame_get_image comes to line 274
IsTestCardCall(a, env) ==
  /\ GetImage(a, env) /\ frame.stack_image = <<>> /\ frame.image = NULL
  /\ frame.test_card_producer # NULL

\* C35: when the test card producer gives no frame, mlt_frame_get_image
\* clears the property test_card_producer, calls itself once and returns 0
\* with the placeholder; when the producer gives a frame, the image of that
\* frame is stored in the properties of this frame, and a second
\* mlt_frame_get_image returns it whether or not the producer could give a
\* frame again, and changes nothing of the frame.
C35_TestCardDegrades ==
  [][ \A a \in Requests, env \in Envs :
        IsTestCardCall(a, env) =>
          IF env.card
          THEN /\ last'.r.error = 0 /\ last'.r.buffer = TestCardImage
               /\ frame'.image = TestCardImage /\ frame'.test_card_frame = 1
               /\ \A a2 \in Requests, env2 \in Envs :
                    LET r2 == mlt_frame_get_image(frame', a2, env2) IN
                    /\ r2.error = 0 /\ r2.buffer = TestCardImage
                    /\ r2.width = last'.r.width /\ r2.height = last'.r.height
                    /\ r2.f = frame'
          ELSE /\ frame'.test_card_producer = NULL
               /\ frame'.test_card_frame = frame.test_card_frame
               /\ frame'.log = frame.log
               /\ PlaceholderContract(a, [last'.r EXCEPT !.f = frame']) ]_vars

\* the test card producer has given a frame for a request of 4 x 2 pixels:
\* its image is the image of this frame and the one returned, the producer
\* is still registered
C35_Witness ==
  /\ last.op = "get_image" /\ last.r.error = 0
  /\ last.r.buffer = TestCardImage /\ last.r.width = 4 /\ last.r.height = 2
  /\ frame.test_card_producer # NULL /\ frame.test_card_frame = 1
  /\ frame.image = TestCardImage /\ frame.stack_image = <<>>


\* ------------------------------------------------------ the resize filter
\* the image stack without the three entries on top of it
BelowFilter == SubSeq(frame.stack_image, 1, Len(frame.stack_image) - 3)

\* the callback of the resize filter is on top of the image stack
FilterOnTop ==
  /\ frame.stack_image # <<>>
  /\ TopEntry.kind = "get_image" /\ TopEntry.type = "filter"

\* C36: filter_process pushes three entries on the image stack, the aspect
\* ratio of the frame, the filter and the get_image callback of the filter,
\* and leaves the entries below them; when that callback is called, it pops
\* the filter and then the aspect ratio and no more before it gets the
\* image down the line, so that the callback pushed before the filter is
\* on top and is the next one called, and an empty stack below the filter
\* is empty for the call down the line.
C36_FilterPopsWhatItPushed ==
  [][ /\ FilterProcess =>
           frame'.stack_image = frame.stack_image \o
             << Entry("double", "", NULL, frame.aspect_ratio),
                Entry("service", "", nextStep + 1, 0),
                Entry("get_image", "filter", nextStep + 1, 0) >>
      /\ \A a \in Requests :
           (IsGetImage(a) /\ FilterOnTop) =>
             LET n   == Len(frame.stack_image)
                 B   == TopEntry
                 new == EventsOf(NewLog)
             IN /\ n >= 3
                /\ frame.stack_image[n - 1] = Entry("service", "", B.id, 0)
                /\ frame.stack_image[n - 2].kind = "double"
                /\ new # <<>> /\ new[1] = Ev("call", B.id)
                /\ new[Len(new)] = Ev("ret", B.id)
                /\ BelowFilter = <<>> =>
                     /\ new = <<Ev("call", B.id), Ev("ret", B.id)>>
                     /\ frame'.stack_image = <<>> /\ ~frame'.fault
                /\ (BelowFilter # <<>>
                      /\ BelowFilter[n - 3].kind = "get_image") =>
                     LET A == BelowFilter[n - 3] IN
                     /\ Len(new) >= 4 /\ new[2] = Ev("call", A.id)
                     /\ A.type \in {"producer", "plain", "fail"} =>
                          /\ new = <<Ev("call", B.id), Ev("call", A.id),
                                     Ev("ret", A.id), Ev("ret", B.id)>>
                          /\ frame'.stack_image = SubSeq(BelowFilter, 1, n - 4)
                          /\ ~frame'.fault ]_vars

\* a callback was pushed, then the resize filter has processed the frame,
\* and the image was got: the filter was called, then the callback below it,
\* and the four entries are gone
C36_Witness ==
  /\ last.op = "get_image" /\ last.popped = 4 /\ frame.stack_image = <<>>
  /\ EventsOf(frame.log) =
       <<Ev("call", 2), Ev("call", 1), Ev("ret", 1), Ev("ret", 2)>>
  /\ ~frame.fault


\* ------------------------------------------------------ test_audio is set
\* C37: a mlt_frame_get_audio on a frame whose test_audio is set leaves
\* test_audio set and calls no get_audio callback; it takes the entry on top
\* of the audio stack, if there is one, and no other, and returns the audio
\* stored in the frame or, if there is none, silence that it stores. A
\* call that makes silence sets test_audio. So no call after it calls a
\* callback as long as no collaborator clears the property.
C37_TestAudioHides ==
  [][ \A a \in AudioRequests, env \in Envs :
        GetAudio(a, env) =>
          /\ (frame.test_audio = 0 /\ frame.stack_audio = <<>>
                /\ frame.audio = NULL) => frame'.test_audio # 0
          /\ frame.test_audio # 0 =>
               /\ frame'.test_audio # 0
               /\ frame'.log = frame.log
               /\ frame'.stack_audio =
                    IF frame.stack_audio = <<>> THEN <<>>
                    ELSE SubSeq(frame.stack_audio, 1,
                                Len(frame.stack_audio) - 1)
               /\ IF frame.audio # NULL
                  THEN /\ last'.r.buffer = frame.audio
                       /\ frame'.audio = frame.audio
                  ELSE /\ last'.r.buffer =
                            IF env.alloc THEN SilenceBuffer ELSE NULL
                       /\ frame'.audio = last'.r.buffer ]_vars

\* silence of 1920 samples was made and stored, then a callback pushed: a
\* call that asks for 2 samples has taken the callback from the stack
\* without a call of it and returned the silence stored before
C37_Witness ==
  /\ last.op = "get_audio" /\ last.popped = 1 /\ last.a.samples = 2
  /\ frame.log = <<>> /\ frame.test_audio = 1 /\ frame.stack_audio = <<>>
  /\ last.r.buffer = SilenceBuffer /\ frame.audio = SilenceBuffer
  /\ last.r.samples = 1920 /\ last.r.channels = 2


\* ------------------------------------------------- the position is kept
\* the position that mlt_frame_get_position reads after the step is the
\* one it reads before it, and the property is as it was if it was not
\* negative
PositionKept ==
  /\ mlt_frame_get_position(frame') = mlt_frame_get_position(frame)
  /\ frame.position >= 0 => frame'.position = frame.position

\* C38: for a frame whose position is not negative, the position after
\* mlt_frame_get_image or mlt_frame_get_audio has returned is the position
\* before the call, whatever position the callbacks that were called have
\* left in the property.
C38_PositionPreserved ==
  [][ /\ \A a \in Requests : IsGetImage(a) => PositionKept
      /\ IsGetAudio => PositionKept ]_vars

\* the frame was at position 3 and the callback with id 1, which leaves the
\* position -1, has returned its image: the frame is at position 3
C38_Witness ==
  /\ last.op = "get_image" /\ last.r.buffer = 1 /\ last.r.error = 0
  /\ EventsOf(frame.log) = <<Ev("call", 1), Ev("ret", 1)>>
  /\ frame.position = 3


\* ------------------------------------------------- the alpha channel resized
\* the alpha channel that the call resizes
MaskBefore ==
  IF pure.m.get_alpha_mask # NULL THEN AlphaOfCallback(pure.m)
  ELSE pure.m.alpha

\* the call resizes an image that is there and its alpha channel, which the
\* callback gives or the frame has stored with a byte for each pixel, to an
\* output of another size with a width and a height above 6, and the pool
\* gave the outputs
IsAlphaResize ==
  /\ IsResize /\ ~pure.m.image.null /\ ~pure'.ret.null
  /\ Len(pure.m.image.b) >= pure.m.width * pure.m.height * 2
  /\ ~MaskBefore.null
  /\ Len(MaskBefore.b) = pure.m.width * pure.m.height
  /\ pure'.owidth > 6 /\ pure'.oheight > 6
  /\ (pure.m.width # pure'.owidth \/ pure.m.height # pure'.oheight)

\* the pixel x, y of an output of owidth pixels a row that holds the input
\* of iwidth x iheight pixels from the pixel px, py on: the index of the
\* pixel of the input, from 0, and -1 where the input has none
PlacedAt(x, y, px, py, iwidth, iheight) ==
  IF x - px >= 0 /\ x - px < iwidth /\ y - py >= 0 /\ y - py < iheight
  THEN (y - py) * iwidth + (x - px)
  ELSE -1

\* C39: for every input and every output of another size with a width and
\* a height above 6, mlt_resize_alpha places the alpha channel at the pixel
\* where mlt_resize_yuv422 places the image, which is half the difference
\* of the widths rounded to an even pixel and (oheight - iheight) / 2 rows,
\* and every byte of the new alpha channel outside the copy is the alpha
\* value given, as every pixel of the image outside the copy is black.
C39_AlphaFollowsImage ==
  [][ IsAlphaResize =>
        LET owidth  == pure'.owidth
            oheight == pure'.oheight
            iwidth  == pure.m.width
            iheight == pure.m.height
            px == CDiv(owidth - iwidth, 2) - CRem(CDiv(owidth - iwidth, 2), 2)
            py == CDiv(oheight - iheight, 2)
        IN /\ ~pure'.m.fault
           /\ \A y \in 0..(oheight - 1), x \in 0..(owidth - 1) :
                LET from == PlacedAt(x, y, px, py, iwidth, iheight)
                    k    == y * owidth + x
                IN /\ pure'.m.alpha.b[k + 1] =
                        IF from >= 0 THEN MaskBefore.b[from + 1]
                        ELSE pure.m.resize_alpha % 256
                   /\ pure'.ret.b[2 * k + 1] =
                        IF from >= 0 THEN pure.m.image.b[2 * from + 1] ELSE 16
                   /\ pure'.ret.b[2 * k + 2] =
                        IF from >= 0 THEN pure.m.image.b[2 * from + 2] ELSE 128
      ]_vars

====
